---------------------------- MODULE Spec2Model ----------------------------
(***************************************************************************)
(* Power / brightness state machine and control loop of the ESP8266 LED    *)
(* matrix clock (src/unnamed/part_000, the v2.x firmware main program).    *)
(*                                                                         *)
(* One loop() iteration is the action Loop; the web handlers that          *)
(* server.handleClient() dispatches at the top of loop() are separate      *)
(* actions that run at position pc = "client" and leave pc = "served".     *)
(* A state with pc = "client" and ticks > 0 is the end of a control-loop   *)
(* tick.  The model covers the power state, the schedule, the sampled      *)
(* inputs and the commands sent to the driver chain; millis() is a 32-bit  *)
(* counter kept as two 16-bit limbs.                                       *)
(***************************************************************************)
EXTENDS Integers, Naturals, Sequences, FiniteSets, TLC

\* ------------------------------------------------------------ constants
DISPLAY_TIMEOUT == 60
STARTUP_GRACE_PERIOD == 10000
DISPLAY_MANUAL_OVERRIDE_DURATION == 300000
MODE_CYCLE_TIME == 20000
NUM_MAX == 8
LINE_WIDTH == 32
TickDelay == 100
StartupMillis == 100
AdcMax == 1023
\* unsigned long (32 bits) is kept as two 16-bit limbs <<high, low>>
Limb == 65536
\* screen left by showMessage(), none of the three clock screens 0, 1, 2
MessageScreen == 3

\* ------------------------------------------------------------ bounds
\* time setup() took between recording startupTime and the first loop()
SetupMillis == 9800
\* a loop() iteration that blocks (network stall) instead of taking TickDelay
LongStall == 300000
\* number of loop() iterations explored together with web requests
MaxTicks == 5
\* number of loop() iterations explored without web requests
MaxRunTicks == 66
\* number of blocking loop() iterations explored
MaxStalls == 2
\* ADC readings explored lie in -LdrNoise .. AdcMax + LdrNoise
LdrNoise == 100
\* high limbs 0 .. MaxModeHigh of millis() the mode selection is explored on
MaxModeHigh == 1
\* mixed framebuffer contents 0 .. MaxPattern explored besides the one-bit frames
MaxPattern == 3
\* number of loop() iterations explored around the wrap of millis()
MaxWrapTicks == 4
\* number of loop() iterations explored with the sampled LDR readings
MaxLightTicks == 2
\* syncNTP() calls and loop() iterations explored around the /timezone command
MaxSyncs == 2
MaxZoneTicks == 1
\* number of loop() iterations explored together with any /brightness value
MaxRangeTicks == 4

\* inputs sampled each tick
LdrSamples == {0, AdcMax}
PirSamples == BOOLEAN
ClockSamples == {<<22, 30>>, <<12, 0>>}
TickDurations == {TickDelay, LongStall}
\* arguments of the web requests: <<>> when absent, <<v>> when present
BrightnessArgs == {<<>>, <<0>>}
EnabledArgs == {<<>>, <<"0">>, <<"1">>}
StartHourArgs == {<<>>, <<30>>}
\* integer arguments the stored configuration is explored on, absent included
IntArgs == {<<>>, <<-1>>, <<7>>, <<60>>}
\* manual brightness values a /brightness request can have stored before
ManualSamples == {1, 4, 15}
\* schedule settings and times of day the schedule evaluation is explored on
ScheduleHourSamples == {0, 6, 12, 22, 23}
ScheduleMinuteSamples == {0, 30, 59}
DayHours == 0 .. 23
DayMinutes == 0 .. 59
\* millis() values the mode selection is explored on: the first limbs after boot
\* and the last limb before the 32-bit counter wraps, every low limb
ModeTimes == ((0 .. MaxModeHigh) \cup {Limb - 1}) \X (0 .. (Limb - 1))
\* readings the fade target is explored on
FadeLdrSamples == {0, 512, AdcMax}
\* raw readings handed to computeAmbientBrightnessFromLdr, out-of-range ones included
LdrRange == (0 - LdrNoise) .. (AdcMax + LdrNoise)

VARIABLES
  now,                          \* value millis() returns during the current loop()
  startupTime,
  hours24, minutes, hours,
  displayOn, displayTimer, brightness,
  lightLevel, previousLightLevel, lightLevelChanged,
  motionDetected,
  brightnessManualOverride, manualBrightness,
  displayManualOverride, displayManualOverrideTimeout,
  scheduleOffEnabled,
  scheduleOffStartHour, scheduleOffStartMinute,
  scheduleOffEndHour, scheduleOffEndMinute,
  hw,                           \* last CMD_SHUTDOWN / CMD_INTENSITY data sent to the chain
  pc,                           \* "client": before server.handleClient(); "served": a handler ran
  ticks,                        \* completed loop() iterations
  stalls,                       \* completed blocking loop() iterations
  withinOffWindow,              \* handleBrightnessAndMotion's local: last schedule evaluation
  rule,                         \* branch of handleBrightnessAndMotion taken in the last tick
  cancelled,                    \* the last tick found the manual override expired
  userChoice,                   \* on/off value set by the last /display toggle
  overruled,                    \* a grace tick ran after the last /display toggle
  idleTicks,                    \* consecutive no-motion ticks under automatic control
  currentMode,
  use24HourFormat, useFahrenheit,
  scr,                          \* framebuffer, as the screen last drawn into it
  rendered,                     \* draws with refreshAll() done so far in the current tick
  \* display driver and renderer state; the control-loop specifications follow scr
  \* and digits as the screen drawn (Draw), the display specifications as bytes
  digits,                       \* digit registers of the chain as last loaded
  pixelData,                    \* pixel rows last reported by /api/display
  call,                         \* last display operation applied, with its arguments
  xPos, yPos,
  seconds, day, month, year,
  showDots,
  temperature, humidity, sensorAvailable,
  currentTimezone,              \* index into timezones[]
  attempts,                     \* syncNTP's local: delays taken by the current call
  polls,                        \* time(nullptr) calls of the current syncNTP()
  timeSet,                      \* the last time(nullptr) of the current call was nonzero
  syncResult,                   \* <<>> before the first return; <<b>>: syncNTP() returned b
  syncs                         \* syncNTP() calls started

power == <<displayOn, displayTimer, brightness, displayManualOverride,
           displayManualOverrideTimeout>>
light == <<lightLevel, previousLightLevel, lightLevelChanged, motionDetected>>
config == <<brightnessManualOverride, manualBrightness>>
schedule == <<scheduleOffEnabled, scheduleOffStartHour, scheduleOffStartMinute,
              scheduleOffEndHour, scheduleOffEndMinute>>
clock == <<hours24, minutes, hours>>
history == <<rule, cancelled, userChoice, overruled, idleTicks>>
matrix == <<currentMode, use24HourFormat, useFahrenheit, scr, rendered>>
panel == <<digits, pixelData, call, xPos, yPos>>
face == <<seconds, day, month, year, showDots, temperature, humidity, sensorAvailable>>
zone == <<currentTimezone, attempts, polls, timeSet, syncResult, syncs>>
boot == <<startupTime, zone>>
vars == <<now, boot, clock, power, light, config, schedule, hw, pc, ticks,
          stalls, withinOffWindow, history, matrix, panel, face>>

\* ------------------------------------------------------------ helpers
\* C integer division (truncation toward zero), divisor > 0
CDiv(a, b) == IF a >= 0 THEN a \div b ELSE -((-a) \div b)

constrain(x, lo, hi) == IF x < lo THEN lo ELSE IF x > hi THEN hi ELSE x

abs(x) == IF x < 0 THEN -x ELSE x

\* Arduino map(): (x - in_min) * (out_max - out_min) / (in_max - in_min) + out_min
map(x, in_min, in_max, out_min, out_max) ==
  CDiv((x - in_min) * (out_max - out_min), in_max - in_min) + out_min

\* unsigned long arithmetic on <<high, low>>
M(n) == <<(n \div Limb) % Limb, n % Limb>>

Add32(a, b) ==
  LET lo == a[2] + b[2] IN
  <<(a[1] + b[1] + (lo \div Limb)) % Limb, lo % Limb>>

Sub32(a, b) ==
  LET lo == a[2] - b[2] + Limb IN
  <<(a[1] - b[1] - (IF lo < Limb THEN 1 ELSE 0) + 2 * Limb) % Limb, lo % Limb>>

Lt32(a, b) == a[1] < b[1] \/ (a[1] = b[1] /\ a[2] < b[2])

\* a % n for an unsigned long a and 0 < n < Limb
Mod32(a, n) == (a[1] * (Limb % n) + a[2]) % n

\* variant: % binds to MODE_CYCLE_TIME alone
newMode_ModFirst(currentMillis) ==
  (Mod32(currentMillis, MODE_CYCLE_TIME) * 3) \div MODE_CYCLE_TIME

\* int newMode = (currentMillis % (MODE_CYCLE_TIME * 3)) / MODE_CYCLE_TIME;
newMode(currentMillis) ==
  Mod32(currentMillis, MODE_CYCLE_TIME * 3) \div MODE_CYCLE_TIME

\* hours = (hours24 == 0) ? 12 : (hours24 > 12) ? hours24 - 12 : hours24
hours12(h24) == IF h24 = 0 THEN 12 ELSE IF h24 > 12 THEN h24 - 12 ELSE h24

\* what displayTimeAndTemp / displayTimeLarge / displayTimeAndDate draw into scr
Draw(mode, use24, fahrenheit, hh, mm) ==
  [mode |-> mode, use24 |-> use24, fahrenheit |-> fahrenheit, hh |-> hh, mm |-> mm]

NoRender == [web |-> FALSE, loop |-> FALSE]

NoCall == [op |-> "none"]

\* variant: the mapping is not inverted
computeAmbientBrightnessFromLdr_NotInverted(ldrValue) ==
  map(constrain(ldrValue, 0, 1023), 0, 1023, 1, 15)

\* variant: the inversion is taken from 16, giving 15 .. 1
computeAmbientBrightnessFromLdr_From16(ldrValue) ==
  16 - map(constrain(ldrValue, 0, 1023), 0, 1023, 1, 15)

\* variant: the reading is not clamped before mapping
computeAmbientBrightnessFromLdr_Unclamped(ldrValue) ==
  15 - map(ldrValue, 0, 1023, 1, 15)

computeAmbientBrightnessFromLdr(ldrValue) ==
  15 - map(constrain(ldrValue, 0, 1023), 0, 1023, 1, 15)

applyDisplayHardwareState(on, intensity) ==
  LET clamped == constrain(intensity, 0, 15) IN
  [shutdown |-> IF on THEN 1 ELSE 0,
   intensity |-> IF on THEN clamped ELSE hw.intensity]

\* variant: the wrap-midnight case is not handled
isWithinScheduleOffWindow_SameDayOnly ==
  /\ scheduleOffEnabled
  /\ hours24 * 60 + minutes >= scheduleOffStartHour * 60 + scheduleOffStartMinute
  /\ hours24 * 60 + minutes < scheduleOffEndHour * 60 + scheduleOffEndMinute

\* variant: equal start and end are not treated as an empty window
isWithinScheduleOffWindow_NoEmptyWindow ==
  IF ~scheduleOffEnabled THEN FALSE
  ELSE LET currentMinutes == hours24 * 60 + minutes
           offStartMinutes == scheduleOffStartHour * 60 + scheduleOffStartMinute
           offEndMinutes == scheduleOffEndHour * 60 + scheduleOffEndMinute
       IN IF offStartMinutes < offEndMinutes
          THEN currentMinutes >= offStartMinutes /\ currentMinutes < offEndMinutes
          ELSE currentMinutes >= offStartMinutes \/ currentMinutes < offEndMinutes

isWithinScheduleOffWindow ==
  IF ~scheduleOffEnabled THEN FALSE
  ELSE IF scheduleOffStartHour = scheduleOffEndHour
          /\ scheduleOffStartMinute = scheduleOffEndMinute THEN FALSE
  ELSE LET currentMinutes == hours24 * 60 + minutes
           offStartMinutes == scheduleOffStartHour * 60 + scheduleOffStartMinute
           offEndMinutes == scheduleOffEndHour * 60 + scheduleOffEndMinute
       IN IF offStartMinutes < offEndMinutes
          THEN currentMinutes >= offStartMinutes /\ currentMinutes < offEndMinutes
          ELSE currentMinutes >= offStartMinutes \/ currentMinutes < offEndMinutes

\* ------------------------------------------------------------ display driver
\* byte scr[NUM_MAX * 8 + 8]
ScrBytes == 0 .. (NUM_MAX * 8 + 8 - 1)
\* the bytes of scr that are shown, eight per module
DisplayBytes == 0 .. (NUM_MAX * 8 - 1)
Modules == 0 .. (NUM_MAX - 1)

\* (v >> k) & 1
Bit(v, k) == (v \div (2 ^ k)) % 2

\* framebuffers with one lit bit, with one dark bit, and mixed contents
OneBitFrame(n, k) == [m \in ScrBytes |-> IF m = n THEN 2 ^ k ELSE 0]
OneDarkFrame(n, k) ==
  [m \in ScrBytes |-> IF m = n THEN 255 - 2 ^ k ELSE IF m \in DisplayBytes THEN 255 ELSE 0]
PatternFrame(p) == [m \in ScrBytes |-> (m * 37 + p * 101 + (m \div 8) * 11) % 256]
FrameSamples ==
  {OneBitFrame(n, k) : n \in DisplayBytes, k \in 0 .. 7}
    \cup {OneDarkFrame(n, k) : n \in DisplayBytes, k \in 0 .. 7}
    \cup {PatternFrame(p) : p \in 0 .. MaxPattern}
    \cup {[m \in ScrBytes |-> 0]}

\* inner loop of refreshAllRot270 after n iterations: bt <<= 1; if (scr[i*8+b] & mask) bt |= 1
RECURSIVE rot270Byte(_, _, _, _)
rot270Byte(s, i, mask, n) ==
  IF n = 0 THEN 0
  ELSE LET bt == (rot270Byte(s, i, mask, n - 1) * 2) % 256 IN
       IF (s[i * 8 + (n - 1)] \div mask) % 2 = 1 THEN bt + 1 ELSE bt

\* variant: the mask starts at 0x80 and moves right, as in refreshAllRot90
refreshAllRot270_MaskFromTop(s) ==
  [i \in Modules |-> [c \in 0 .. 7 |-> rot270Byte(s, i, 128 \div (2 ^ c), 8)]]

\* data byte loaded into digit c of module i: mask = 0x01 << c
refreshAllRot270(s) ==
  [i \in Modules |-> [c \in 0 .. 7 |-> rot270Byte(s, i, 2 ^ c, 8)]]

\* inner loop of refreshAllRot90 after n iterations: bt >>= 1; if (scr[i*8+b] & mask) bt |= 0x80
RECURSIVE rot90Byte(_, _, _, _)
rot90Byte(s, i, mask, n) ==
  IF n = 0 THEN 0
  ELSE LET bt == rot90Byte(s, i, mask, n - 1) \div 2 IN
       IF (s[i * 8 + (n - 1)] \div mask) % 2 = 1 THEN bt + 128 ELSE bt

\* variant: the mask is not moved between digits
refreshAllRot90_FixedMask(s) ==
  [i \in Modules |-> [c \in 0 .. 7 |-> rot90Byte(s, i, 128, 8)]]

\* data byte loaded into digit c of module i: mask = 0x80 >> c
refreshAllRot90(s) ==
  [i \in Modules |-> [c \in 0 .. 7 |-> rot90Byte(s, i, 128 \div (2 ^ c), 8)]]

\* refreshAll() without rotation: digit c of module i is scr[i * 8 + c]
refreshAllPlain(s) ==
  [i \in Modules |-> [c \in 0 .. 7 |-> s[i * 8 + c]]]

\* variant: the row mask runs from the top bit down
apiDisplay_MaskFromTop(s) ==
  [n \in 1 .. (LINE_WIDTH * 16) |->
     LET y == (n - 1) \div LINE_WIDTH
         x == (n - 1) % LINE_WIDTH
         byteOffset == ((y \div 8) * 4 + (x \div 8)) * 8 + (x % 8)
     IN IF (s[byteOffset] \div (128 \div (2 ^ (y % 8)))) % 2 # 0 THEN "1" ELSE "0"]

\* /api/display: pixelData, one character per pixel, row by row
apiDisplay(s) ==
  [n \in 1 .. (LINE_WIDTH * 16) |->
     LET y == (n - 1) \div LINE_WIDTH
         x == (n - 1) % LINE_WIDTH
         moduleIdx == (y \div 8) * 4 + (x \div 8)
         colInModule == x % 8
         rowInModule == y % 8
         mask == 2 ^ rowInModule
         byteOffset == moduleIdx * 8 + colInModule
     IN IF (s[byteOffset] \div mask) % 2 # 0 THEN "1" ELSE "0"]

\* ------------------------------------------------------------ fonts and text
\* const uint8_t digits5x16rn[] PROGMEM: width, height, first code, last code, then per glyph
\* its width and its column bytes
digits5x16rn ==
  <<5, 16, 48, 58,
    5, 254, 127, 1, 128, 1, 128, 255, 255, 254, 127,
    4, 4, 0, 2, 0, 255, 255, 255, 255, 0, 0,
    5, 2, 255, 129, 128, 129, 128, 255, 128, 126, 128,
    5, 2, 64, 129, 128, 129, 128, 255, 255, 126, 127,
    5, 255, 1, 0, 1, 0, 1, 254, 255, 254, 255,
    5, 255, 64, 129, 128, 129, 128, 129, 255, 1, 127,
    5, 254, 127, 129, 128, 129, 128, 129, 255, 2, 127,
    5, 1, 0, 1, 252, 193, 255, 255, 3, 63, 0,
    5, 126, 127, 129, 128, 129, 128, 255, 255, 126, 127,
    5, 126, 64, 129, 128, 129, 128, 255, 255, 254, 127,
    1, 32, 2, 0, 0, 0, 0, 0, 0, 0, 0 >>

\* const uint8_t digits5x8rn[] PROGMEM: width, height, first code, last code, then per glyph
\* its width and its column bytes
digits5x8rn ==
  <<5, 8, 32, 58,
    0, 0, 0, 0, 0, 0,
    1, 95, 0, 0, 0, 0,
    3, 3, 0, 3, 0, 0,
    3, 2, 127, 2, 0, 0,
    3, 32, 127, 32, 0, 0,
    3, 97, 28, 67, 0, 0,
    0, 0, 0, 0, 0, 0,
    1, 1, 0, 0, 0, 0,
    2, 62, 65, 0, 0, 0,
    2, 65, 62, 0, 0, 0,
    0, 0, 0, 0, 0, 0,
    5, 8, 8, 62, 8, 8,
    2, 128, 64, 0, 0, 0,
    5, 8, 8, 8, 8, 8,
    1, 64, 0, 0, 0, 0,
    3, 96, 28, 3, 0, 0,
    5, 126, 129, 129, 255, 126,
    4, 4, 2, 255, 255, 0,
    5, 241, 137, 137, 143, 134,
    5, 129, 137, 137, 255, 118,
    5, 31, 16, 16, 254, 254,
    5, 143, 137, 137, 249, 113,
    5, 126, 137, 137, 249, 112,
    5, 1, 193, 241, 63, 15,
    5, 118, 137, 137, 255, 118,
    5, 14, 145, 145, 255, 126,
    1, 36, 0, 0, 0, 0 >>

\* const uint8_t font3x7[] PROGMEM: width, height, first code, last code, then per glyph
\* its width and its column bytes
font3x7 ==
  <<5, 7, 32, 95,
    2, 0, 0, 0, 0, 0,
    1, 0, 0, 0, 0, 0,
    1, 0, 0, 0, 0, 0,
    1, 0, 0, 0, 0, 0,
    1, 0, 0, 0, 0, 0,
    1, 0, 0, 0, 0, 0,
    0, 0, 0, 0, 0, 0,
    1, 0, 0, 0, 0, 0,
    1, 0, 0, 0, 0, 0,
    1, 0, 0, 0, 0, 0,
    1, 0, 0, 0, 0, 0,
    1, 0, 0, 0, 0, 0,
    1, 0, 0, 0, 0, 0,
    1, 0, 0, 0, 0, 0,
    1, 64, 0, 0, 0, 0,
    1, 0, 0, 0, 0, 0,
    3, 127, 65, 127, 0, 0,
    3, 4, 2, 127, 0, 0,
    3, 121, 73, 79, 0, 0,
    3, 65, 73, 127, 0, 0,
    3, 31, 16, 124, 0, 0,
    3, 79, 73, 121, 0, 0,
    3, 127, 73, 121, 0, 0,
    3, 1, 113, 15, 0, 0,
    3, 127, 73, 127, 0, 0,
    3, 79, 73, 127, 0, 0,
    1, 0, 0, 0, 0, 0,
    1, 0, 0, 0, 0, 0,
    1, 0, 0, 0, 0, 0,
    1, 0, 0, 0, 0, 0,
    1, 0, 0, 0, 0, 0,
    1, 0, 0, 0, 0, 0,
    1, 0, 0, 0, 0, 0,
    3, 120, 36, 120, 0, 0,
    3, 124, 84, 40, 0, 0,
    3, 56, 68, 68, 0, 0,
    3, 124, 68, 56, 0, 0,
    3, 124, 84, 68, 0, 0,
    3, 124, 20, 4, 0, 0,
    3, 56, 68, 116, 0, 0,
    3, 124, 16, 124, 0, 0,
    1, 124, 0, 0, 0, 0,
    3, 68, 68, 60, 0, 0,
    3, 124, 16, 108, 0, 0,
    3, 124, 64, 64, 0, 0,
    5, 120, 4, 56, 4, 120,
    3, 124, 4, 120, 0, 0,
    3, 56, 68, 56, 0, 0,
    3, 124, 36, 24, 0, 0,
    1, 0, 0, 0, 0, 0,
    3, 124, 36, 88, 0, 0,
    3, 72, 84, 36, 0, 0,
    3, 4, 124, 4, 0, 0,
    3, 60, 64, 124, 0, 0,
    3, 60, 64, 60, 0, 0,
    5, 60, 64, 56, 64, 60,
    1, 0, 0, 0, 0, 0,
    3, 28, 112, 28, 0, 0,
    3, 100, 84, 76, 0, 0,
    1, 0, 0, 0, 0, 0,
    1, 0, 0, 0, 0, 0,
    1, 0, 0, 0, 0, 0,
    1, 0, 0, 0, 0, 0,
    1, 0, 0, 0, 0, 0 >>

\* const uint8_t digits3x5[] PROGMEM: width, height, first code, last code, then per glyph
\* its width and its column bytes
digits3x5 ==
  <<3, 5, 48, 57,
    3, 248, 136, 248,
    3, 0, 16, 248,
    3, 232, 168, 184,
    3, 136, 168, 248,
    3, 56, 32, 248,
    3, 184, 168, 232,
    3, 248, 168, 232,
    3, 8, 8, 248,
    3, 248, 168, 248,
    3, 184, 168, 248 >>

Fonts == {digits5x16rn, digits5x8rn, font3x7, digits3x5}

\* pgm_read_byte(font + off)
pgm_read_byte(font, off) == font[off + 1]

\* scr[n] = v; a write outside the array is reported by Wild and not explored
Poke(s, n, v) == IF n \in DOMAIN s THEN [s EXCEPT ![n] = v] ELSE s

\* for (i = 0; i < w; i++) scr[x + LINE_WIDTH * (j + yPos) + i] = glyph byte, after n rounds
RECURSIVE blitColumns(_, _, _, _, _, _, _, _)
blitColumns(s, font, x, y, fht8, j, w, n) ==
  IF n = 0 THEN s
  ELSE Poke(blitColumns(s, font, x, y, fht8, j, w, n - 1),
            x + LINE_WIDTH * (j + y) + (n - 1),
            pgm_read_byte(font, 1 + fht8 * (n - 1) + j))

\* for (j = 0; j < fht8; j++) { columns; if (x + i < LINE_WIDTH) scr[...] = 0; }, after n rounds
RECURSIVE blitBands(_, _, _, _, _, _, _)
blitBands(s, font, x, y, fht8, w, n) ==
  IF n = 0 THEN s
  ELSE LET j == n - 1
           drawn == blitColumns(blitBands(s, font, x, y, fht8, w, n - 1),
                                font, x, y, fht8, j, w, w)
       IN IF x + w < LINE_WIDTH
          THEN Poke(drawn, x + LINE_WIDTH * (j + y) + w, 0)
          ELSE drawn

\* the glyph of character ch: its offset in the font after the header skip
GlyphAt(font, ch) ==
  LET fwd == pgm_read_byte(font, 0)
      fht == pgm_read_byte(font, 1)
      offs == pgm_read_byte(font, 2)
      fht8 == (fht + 7) \div 8
  IN 4 + (ch - offs) * (fht8 * fwd + 1)

\* Tail^n of a sequence: font += n
Skip(font, n) == [k \in 1 .. (Len(font) - n) |-> font[k + n]]

\* indexes of scr that printCharX writes
Touched(ch, font, x, y) ==
  LET fht == pgm_read_byte(font, 1)
      offs == pgm_read_byte(font, 2)
      last == pgm_read_byte(font, 3)
      fht8 == (fht + 7) \div 8
      w == pgm_read_byte(font, GlyphAt(font, ch))
  IN IF ch < offs \/ ch > last THEN {}
     ELSE {x + LINE_WIDTH * (j + y) + i : j \in 0 .. (fht8 - 1), i \in 0 .. (w - 1)}
            \cup (IF x + w < LINE_WIDTH
                  THEN {x + LINE_WIDTH * (j + y) + w : j \in 0 .. (fht8 - 1)}
                  ELSE {})

\* some write of printCharX lands outside scr
Wild(ch, font, x, y) == ~(Touched(ch, font, x, y) \subseteq ScrBytes)

\* variant: a code outside the font's range draws the first glyph
printCharX_DrawsFirstGlyph(s, ch, font, x, y) ==
  LET fht == pgm_read_byte(font, 1)
      offs == pgm_read_byte(font, 2)
      fht8 == (fht + 7) \div 8
      glyph == Skip(font, GlyphAt(font, offs))
      w == pgm_read_byte(glyph, 0)
  IN [scr |-> blitBands(s, glyph, x, y, fht8, w, fht8), w |-> w]

\* int printCharX(char ch, const uint8_t* font, int x): the framebuffer after the
\* call and the width returned
printCharX(s, ch, font, x, y) ==
  LET fht == pgm_read_byte(font, 1)
      offs == pgm_read_byte(font, 2)
      last == pgm_read_byte(font, 3)
  IN IF ch < offs \/ ch > last
     THEN [scr |-> s, w |-> 0]
     ELSE LET fht8 == (fht + 7) \div 8
              glyph == Skip(font, GlyphAt(font, ch))
              w == pgm_read_byte(glyph, 0)
          IN [scr |-> blitBands(s, glyph, x, y, fht8, w, fht8), w |-> w]

\* int charWidth(char c, const uint8_t* font)
charWidth(c, font) ==
  LET offs == pgm_read_byte(font, 2)
      last == pgm_read_byte(font, 3)
  IN IF c < offs \/ c > last
     THEN 0
     ELSE LET len == pgm_read_byte(font, 4)
          IN pgm_read_byte(font, 5 + (c - offs) * len)

\* void printChar(unsigned char c, const uint8_t* font) on the pen [scr, xPos, wild]
printChar(pen, c, font, y) ==
  IF pen.xPos > NUM_MAX * 8 THEN pen
  ELSE LET r == printCharX(pen.scr, c, font, pen.xPos, y) IN
       [scr |-> r.scr, xPos |-> pen.xPos + r.w + 1,
        wild |-> pen.wild \/ Wild(c, font, pen.xPos, y)]

\* void printString(const char* s, const uint8_t* font), after the first n characters
RECURSIVE printStringTo(_, _, _, _, _)
printStringTo(pen, str, font, y, n) ==
  IF n = 0 THEN pen
  ELSE printChar(printStringTo(pen, str, font, y, n - 1), str[n], font, y)

printString(pen, str, font, y) == printStringTo(pen, str, font, y, Len(str))

\* void clr(): for (i = 0; i < NUM_MAX * 8; i++) scr[i] = 0
clr(s) == [m \in ScrBytes |-> IF m < NUM_MAX * 8 THEN 0 ELSE s[m]]

\* ------------------------------------------------------------ display modes
\* sprintf "%d" of v as character codes
RECURSIVE Dec(_)
Dec(v) ==
  IF v < 0 THEN <<45>> \o Dec(0 - v)
  ELSE IF v < 10 THEN <<48 + v>>
  ELSE Dec(v \div 10) \o <<48 + (v % 10)>>

\* sprintf "%02d" of v
Pad2(v) == IF Len(Dec(v)) < 2 THEN <<48>> \o Dec(v) ELSE Dec(v)

\* const char* months[]
months ==
  <<<<74, 65, 78>>, <<70, 69, 66>>, <<77, 65, 82>>, <<65, 80, 82>>,
    <<77, 65, 89>>, <<74, 85, 78>>, <<74, 85, 76>>, <<65, 85, 71>>,
    <<83, 69, 80>>, <<79, 67, 84>>, <<78, 79, 86>>, <<68, 69, 67>> >>

\* the globals the display functions read
Globals ==
  [use24HourFormat |-> use24HourFormat, useFahrenheit |-> useFahrenheit,
   hours24 |-> hours24, hours |-> hours, minutes |-> minutes, seconds |-> seconds,
   day |-> day, month |-> month, year |-> year, showDots |-> showDots,
   temperature |-> temperature, humidity |-> humidity,
   sensorAvailable |-> sensorAvailable]

\* int getDisplayTemperature()
getDisplayTemperature(g) ==
  IF g.useFahrenheit THEN CDiv(g.temperature * 9, 5) + 32 ELSE g.temperature

\* char getTempUnit()
getTempUnit(g) == IF g.useFahrenheit THEN 70 ELSE 67

\* if (showDots) printCharX(':', font, xPos)
printDots(pen, g, font, y) ==
  IF g.showDots
  THEN [pen EXCEPT !.scr = printCharX(pen.scr, 58, font, pen.xPos, y).scr,
                   !.wild = @ \/ Wild(58, font, pen.xPos, y)]
  ELSE pen

\* variant: the seconds are drawn in 24-hour format too
smallTimeLine_SecondsAlways(pen, g) ==
  LET hh == printString([pen EXCEPT !.xPos = 0], Pad2(g.hours24), digits5x8rn, 0)
      dots == printDots(hh, g, digits5x8rn, 0)
      mm == printString([dots EXCEPT !.xPos = @ + 2], Pad2(g.minutes), digits5x8rn, 0)
  IN printString(mm, Pad2(g.seconds), digits3x5, 0)

\* top line of displayTimeAndTemp
smallTimeLine(pen, g) ==
  IF g.use24HourFormat
  THEN LET hh == printString([pen EXCEPT !.xPos = 0], Pad2(g.hours24), digits5x8rn, 0)
           dots == printDots(hh, g, digits5x8rn, 0)
       IN printString([dots EXCEPT !.xPos = @ + 2], Pad2(g.minutes), digits5x8rn, 0)
  ELSE LET hh == printString([pen EXCEPT !.xPos = IF g.hours > 9 THEN 0 ELSE 2],
                             Dec(g.hours), digits5x8rn, 0)
           dots == printDots(hh, g, digits5x8rn, 0)
           mm == printString([dots EXCEPT !.xPos = @ + (IF g.hours >= 20 THEN 1 ELSE 2)],
                             Pad2(g.minutes), digits5x8rn, 0)
       IN printString(mm, Pad2(g.seconds), digits3x5, 0)

\* for (int i = 0; i < LINE_WIDTH; i++) scr[LINE_WIDTH + i] <<= 1
shiftBottomLine(pen) ==
  [pen EXCEPT !.scr = [m \in ScrBytes |->
                         IF m \in LINE_WIDTH .. (2 * LINE_WIDTH - 1)
                         THEN (pen.scr[m] * 2) % 256
                         ELSE pen.scr[m]]]

\* void displayTimeAndTemp()
displayTimeAndTemp(s, g) ==
  LET top == smallTimeLine([scr |-> clr(s), xPos |-> 0, wild |-> FALSE], g)
      txt == IF g.sensorAvailable
             THEN <<84>> \o Dec(getDisplayTemperature(g)) \o <<getTempUnit(g), 32, 72>>
                    \o Dec(g.humidity) \o <<37>>
             ELSE <<78, 79, 32, 83, 69, 78, 83, 79, 82>>
  IN shiftBottomLine(printString([top EXCEPT !.xPos = 1], txt, font3x7, 1))

\* variant: the hour drawn follows the 12/24-hour flag
displayTimeLarge_FollowsFormat(s, g) ==
  LET hour == IF g.use24HourFormat THEN g.hours24 ELSE g.hours
      hh == printString([scr |-> clr(s), xPos |-> IF hour > 9 THEN 0 ELSE 3,
                         wild |-> FALSE],
                        Dec(hour), digits5x16rn, 0)
      dots == printDots(hh, g, digits5x16rn, 0)
      mm == printString([dots EXCEPT !.xPos = @ + (IF hour >= 20 THEN 1 ELSE 2)],
                        Pad2(g.minutes), digits5x16rn, 0)
  IN printString(mm, Pad2(g.seconds), font3x7, 0)

\* void displayTimeLarge()
displayTimeLarge(s, g) ==
  LET hh == printString([scr |-> clr(s), xPos |-> IF g.hours > 9 THEN 0 ELSE 3,
                         wild |-> FALSE],
                        Dec(g.hours), digits5x16rn, 0)
      dots == printDots(hh, g, digits5x16rn, 0)
      mm == printString([dots EXCEPT !.xPos = @ + (IF g.hours >= 20 THEN 1 ELSE 2)],
                        Pad2(g.minutes), digits5x16rn, 0)
  IN printString(mm, Pad2(g.seconds), font3x7, 0)

\* variant: the 12-hour line of the date screen always starts at column 0
dateTimeLine_FromColumnZero(pen, g) ==
  IF g.use24HourFormat
  THEN LET hh == printString([pen EXCEPT !.xPos = 0], Pad2(g.hours24), digits5x8rn, 0)
           dots == printDots(hh, g, digits5x8rn, 0)
       IN printString([dots EXCEPT !.xPos = @ + 2], Pad2(g.minutes), digits5x8rn, 0)
  ELSE LET hh == printString([pen EXCEPT !.xPos = 0], Dec(g.hours), digits5x8rn, 0)
           dots == printDots(hh, g, digits5x8rn, 0)
           mm == printString([dots EXCEPT !.xPos = @ + (IF g.hours >= 20 THEN 1 ELSE 2)],
                             Pad2(g.minutes), digits5x8rn, 0)
       IN printString(mm, Pad2(g.seconds), digits3x5, 0)

\* top line of displayTimeAndDate, from its own code
dateTimeLine(pen, g) ==
  IF g.use24HourFormat
  THEN LET hh == printString([pen EXCEPT !.xPos = 0], Pad2(g.hours24), digits5x8rn, 0)
           dots == printDots(hh, g, digits5x8rn, 0)
       IN printString([dots EXCEPT !.xPos = @ + 2], Pad2(g.minutes), digits5x8rn, 0)
  ELSE LET hh == printString([pen EXCEPT !.xPos = IF g.hours > 9 THEN 0 ELSE 2],
                             Dec(g.hours), digits5x8rn, 0)
           dots == printDots(hh, g, digits5x8rn, 0)
           mm == printString([dots EXCEPT !.xPos = @ + (IF g.hours >= 20 THEN 1 ELSE 2)],
                             Pad2(g.minutes), digits5x8rn, 0)
       IN printString(mm, Pad2(g.seconds), digits3x5, 0)

\* void displayTimeAndDate()
displayTimeAndDate(s, g) ==
  LET top == dateTimeLine([scr |-> clr(s), xPos |-> 0, wild |-> FALSE], g)
      txt == Dec(g.day) \o <<38>> \o months[g.month] \o <<38>> \o Dec(g.year % 100)
  IN shiftBottomLine(printString([top EXCEPT !.xPos = 1], txt, font3x7, 1))

\* millis() - startupTime < STARTUP_GRACE_PERIOD
GraceActive == Lt32(Sub32(now, startupTime), M(STARTUP_GRACE_PERIOD))

\* displayManualOverride && millis() > displayManualOverrideTimeout
OverrideExpired == displayManualOverride /\ Lt32(displayManualOverrideTimeout, now)

\* brightnessManualOverride ? manualBrightness : ambientBrightness
TargetBrightness(ambientBrightness) ==
  IF brightnessManualOverride THEN manualBrightness ELSE ambientBrightness

\* ------------------------------------------------------------ initial state
\* the other globals, and the bookkeeping of the model, at the first loop()
InitRest ==
  /\ startupTime = M(StartupMillis)
  /\ currentTimezone = 0
  /\ attempts = 0 /\ polls = 0 /\ timeSet = FALSE
  /\ syncResult = <<>>
  /\ syncs = 0
  /\ previousLightLevel = 512
  /\ motionDetected = FALSE
  /\ rendered = NoRender
  /\ pixelData = <<>>
  /\ xPos = 0 /\ yPos = 0
  /\ pc = "client"
  /\ ticks = 0
  /\ stalls = 0
  /\ withinOffWindow = FALSE
  /\ rule = "none"
  /\ cancelled = FALSE
  /\ userChoice = "none"
  /\ overruled = FALSE
  /\ idleTicks = 0

\* display switch, brightness, manual override and light-changed flag as initialised
InitSwitch ==
  /\ displayOn = TRUE
  /\ brightness = 8
  /\ lightLevelChanged = FALSE
  /\ displayManualOverride = FALSE
  /\ displayManualOverrideTimeout = M(0)
  /\ hw = [shutdown |-> 1, intensity |-> 5]

InitControl ==
  /\ InitSwitch
  /\ InitRest

InitFormat ==
  /\ use24HourFormat = FALSE
  /\ useFahrenheit = FALSE

InitGlobals ==
  /\ InitControl
  /\ InitFormat

\* the first loop() starts SetupMillis after startupTime was recorded
InitNow == now = M(StartupMillis + SetupMillis)

InitLight == lightLevel = 512

\* showMessage("READY!") drew and refreshed the last screen of setup()
InitScreen ==
  /\ scr = Draw(MessageScreen, FALSE, FALSE, 0, 0)
  /\ digits = Draw(MessageScreen, FALSE, FALSE, 0, 0)
  /\ call = NoCall

\* time, date and sensor values at the first loop()
InitFace ==
  /\ seconds = 0
  /\ day = 0 /\ month = 0 /\ year = 0
  /\ showDots = TRUE
  /\ temperature = 0 /\ humidity = 0
  /\ sensorAvailable = FALSE

InitMode == currentMode = 0

InitTimer == displayTimer = DISPLAY_TIMEOUT

InitBrightnessConfig ==
  /\ brightnessManualOverride = FALSE
  /\ manualBrightness = 4

InitSchedule ==
  /\ scheduleOffEnabled = TRUE
  /\ scheduleOffStartHour = 22 /\ scheduleOffStartMinute = 0
  /\ scheduleOffEndHour = 6 /\ scheduleOffEndMinute = 0

InitClock == hours24 = 12 /\ minutes = 0 /\ hours = hours12(hours24)

Init ==
  /\ InitGlobals /\ InitScreen /\ InitFace
  /\ InitNow /\ InitLight /\ InitTimer /\ InitBrightnessConfig /\ InitMode
  /\ InitClock
  /\ InitSchedule

\* a schedule as /schedule can have stored it, at any time of day
InitWindow ==
  /\ InitGlobals /\ InitScreen /\ InitFace
  /\ InitNow /\ InitLight /\ InitTimer /\ InitBrightnessConfig /\ InitMode
  /\ hours24 \in DayHours /\ minutes \in DayMinutes /\ hours = hours12(hours24)
  /\ scheduleOffEnabled \in BOOLEAN
  /\ scheduleOffStartHour \in ScheduleHourSamples
  /\ scheduleOffStartMinute \in ScheduleMinuteSamples
  /\ scheduleOffEndHour \in ScheduleHourSamples
  /\ scheduleOffEndMinute \in ScheduleMinuteSamples

\* framebuffer contents a glyph is drawn over: empty, every bit lit, mixed
GlyphFrames ==
  {[m \in ScrBytes |-> 0], [m \in ScrBytes |-> 255], PatternFrame(0)}

\* character codes below, inside and above the fonts' ranges
CharSamples == {31, 32, 47, 48, 49, 56, 58, 59, 65, 95, 96, 127}

\* columns a glyph is drawn at, up to and past the right edge
ColumnSamples == {0, 5, 27, 28, 30, 31, 32, 33}

\* the texts setup() shows, as character codes
Messages ==
  { <<82, 69, 65, 68, 89, 33>>,  \* "READY!"
    <<87, 73, 70, 73, 46, 46, 46>>,  \* "WIFI..."
    <<87, 73, 70, 73, 32, 70, 65, 73, 76>>,  \* "WIFI FAIL"
    <<83, 89, 78, 67, 32, 84, 73, 77, 69>>,  \* "SYNC TIME"
    <<83, 69, 84, 85, 80, 32, 65, 80>>,  \* "SETUP AP"
    <<76, 69, 68, 32, 67, 76, 79, 67, 75>>,  \* "LED CLOCK"
    <<49, 48, 46, 48, 46, 48, 46, 55>> }  \* "10.0.0.7" (an address as WiFi.localIP().toString() gives it)

\* seconds values the display modes are drawn for
SecondSamples == {0, 37, 59}

\* any time, date, format and sensor state, over the previous frame
InitDrawn ==
  /\ InitControl
  /\ InitNow /\ InitLight /\ InitTimer /\ InitBrightnessConfig /\ InitMode
  /\ InitSchedule
  /\ use24HourFormat \in BOOLEAN /\ useFahrenheit \in BOOLEAN
  /\ hours24 \in {0, 1, 9, 12, 13, 21, 23} /\ hours = hours12(hours24)
  /\ minutes \in {0, 59} /\ seconds \in SecondSamples
  /\ day \in {1, 31} /\ month \in {1, 12} /\ year \in {2026}
  /\ showDots \in BOOLEAN
  /\ temperature \in {21} /\ humidity \in {45}
  /\ sensorAvailable \in BOOLEAN
  /\ scr = [m \in ScrBytes |-> 255]
  /\ digits = refreshAllPlain([m \in ScrBytes |-> 0])
  /\ call = NoCall

\* milliseconds left before millis() wraps when the exploration starts
WrapLeads == {200, 300050}

\* the process has run for almost 2^32 ms: millis() is about to wrap
InitWrap ==
  /\ InitGlobals /\ InitScreen /\ InitFace
  /\ InitLight /\ InitTimer /\ InitBrightnessConfig /\ InitMode
  /\ InitClock
  /\ InitSchedule
  /\ \E lead \in WrapLeads : now = Sub32(M(0), M(lead))

\* times, dates and sensor values up to the ends of their valid ranges
InitBounds ==
  /\ InitControl
  /\ InitNow /\ InitLight /\ InitTimer /\ InitBrightnessConfig /\ InitMode
  /\ InitSchedule
  /\ use24HourFormat \in BOOLEAN /\ useFahrenheit \in BOOLEAN
  /\ hours24 \in {1, 12, 23} /\ hours = hours12(hours24)
  /\ minutes = 59 /\ seconds = 59
  /\ day \in {1, 31} /\ month \in {1, 5, 12} /\ year = 2026
  /\ showDots = TRUE
  /\ temperature \in {-40, 0, 21, 85} /\ humidity \in {0, 45, 100}
  /\ sensorAvailable \in BOOLEAN
  /\ scr = [m \in ScrBytes |-> 0]
  /\ digits = refreshAllPlain([m \in ScrBytes |-> 0])
  /\ call = NoCall

\* LDR readings around the 5% threshold of small and large previous readings
LightSamples == {0, 1, 10, 19, 20, 21, 50, 51, 500, 524, 525, AdcMax}

\* the first loop() after the grace period
InitAfterGrace ==
  /\ InitGlobals /\ InitScreen /\ InitFace
  /\ InitLight /\ InitTimer /\ InitBrightnessConfig /\ InitMode /\ InitClock
  /\ InitSchedule
  /\ now = M(StartupMillis + STARTUP_GRACE_PERIOD)

\* any framebuffer content a glyph or a message is drawn over
InitGlyph ==
  /\ InitGlobals /\ InitFace
  /\ InitNow /\ InitLight /\ InitTimer /\ InitBrightnessConfig /\ InitMode
  /\ InitClock /\ InitSchedule
  /\ scr \in GlyphFrames
  /\ digits = refreshAllPlain([m \in ScrBytes |-> 0])
  /\ call = NoCall

\* any sampled framebuffer content, before it is sent or reported
InitPanel ==
  /\ InitGlobals /\ InitFace
  /\ InitNow /\ InitLight /\ InitTimer /\ InitBrightnessConfig /\ InitMode
  /\ InitClock /\ InitSchedule
  /\ scr \in FrameSamples
  /\ digits = refreshAllPlain([m \in ScrBytes |-> 0])
  /\ call = NoCall

\* a status or mirror request arriving in any sampled state of the display switch,
\* the idle timer, the manual override, the schedule switch and the framebuffer
InitMirror ==
  /\ InitRest /\ InitFormat /\ InitFace
  /\ InitNow /\ InitLight /\ InitBrightnessConfig /\ InitMode /\ InitClock
  /\ displayOn \in BOOLEAN
  /\ brightness \in {1, 15}
  /\ displayTimer \in {0, DISPLAY_TIMEOUT}
  /\ lightLevelChanged \in BOOLEAN
  /\ displayManualOverride \in BOOLEAN
  /\ displayManualOverrideTimeout
       = IF displayManualOverride
         THEN Add32(now, M(DISPLAY_MANUAL_OVERRIDE_DURATION))
         ELSE M(0)
  /\ hw = [shutdown |-> IF displayOn THEN 1 ELSE 0, intensity |-> brightness]
  /\ scheduleOffEnabled \in BOOLEAN
  /\ scheduleOffStartHour = 22 /\ scheduleOffStartMinute = 0
  /\ scheduleOffEndHour = 6 /\ scheduleOffEndMinute = 0
  /\ scr \in GlyphFrames
  /\ digits = refreshAllPlain([m \in ScrBytes |-> 0])
  /\ call = NoCall

\* a configuration as earlier /schedule and /brightness requests can have stored it
InitConfig ==
  /\ InitGlobals /\ InitScreen /\ InitFace
  /\ InitNow /\ InitLight /\ InitTimer /\ InitMode /\ InitClock
  /\ scheduleOffEnabled \in BOOLEAN
  /\ scheduleOffStartHour \in ScheduleHourSamples
  /\ scheduleOffStartMinute \in ScheduleMinuteSamples
  /\ scheduleOffEndHour = 6 /\ scheduleOffEndMinute = 0
  /\ brightnessManualOverride = FALSE
  /\ manualBrightness \in ManualSamples

\* any idle timer value, brightness mode, manual value and sampled reading
InitFade ==
  /\ InitGlobals /\ InitScreen /\ InitFace
  /\ InitNow /\ InitClock /\ InitSchedule /\ InitMode
  /\ displayTimer \in 0 .. DISPLAY_TIMEOUT
  /\ brightnessManualOverride \in BOOLEAN
  /\ manualBrightness \in 1 .. 15
  /\ lightLevel \in FadeLdrSamples

\* any raw reading the ADC read can hand to the brightness mapping
InitLdr ==
  /\ InitGlobals /\ InitScreen /\ InitFace
  /\ InitNow /\ InitTimer /\ InitBrightnessConfig /\ InitClock /\ InitSchedule
  /\ InitMode
  /\ lightLevel \in LdrRange

\* any millis() value, whatever mode the previous loop() left
InitModeTimes ==
  /\ InitGlobals /\ InitScreen /\ InitFace
  /\ InitLight /\ InitTimer /\ InitBrightnessConfig /\ InitClock /\ InitSchedule
  /\ now \in ModeTimes
  /\ currentMode \in 0 .. 2

\* ------------------------------------------------------------ power rules
\* variant: grace adjusts brightness but leaves the on/off state alone
GraceRule_KeepsOnOff(ldr) ==
  LET b == TargetBrightness(computeAmbientBrightnessFromLdr(ldr)) IN
  /\ displayTimer' = DISPLAY_TIMEOUT
  /\ brightness' = b
  /\ hw' = IF displayOn THEN applyDisplayHardwareState(TRUE, b) ELSE hw
  /\ UNCHANGED <<displayOn, light, displayManualOverride, displayManualOverrideTimeout,
                 withinOffWindow>>

\* startup grace: force on, full idle timer
GraceRule(ldr) ==
  LET ambientBrightness == computeAmbientBrightnessFromLdr(ldr)
      b == TargetBrightness(ambientBrightness) IN
  /\ displayOn' = TRUE
  /\ displayTimer' = DISPLAY_TIMEOUT
  /\ brightness' = b
  /\ hw' = applyDisplayHardwareState(TRUE, b)
  /\ UNCHANGED <<light, displayManualOverride, displayManualOverrideTimeout,
                 withinOffWindow>>

\* light reading, change detection and motion sampling
SampleInputs(ldr, pir) ==
  LET lightDifference == abs(ldr - previousLightLevel)
      changeThreshold == IF previousLightLevel > 0
                         THEN CDiv(previousLightLevel * 5, 100) ELSE 51 IN
  /\ lightLevel' = ldr
  /\ lightLevelChanged' = (lightLevelChanged \/ lightDifference >= changeThreshold)
  /\ previousLightLevel' = ldr
  /\ motionDetected' = pir

\* variant: the override tick re-adjusts brightness whether on or off
OverrideRule_AdjustsWhenOff(ambientBrightness) ==
  /\ brightness' = TargetBrightness(ambientBrightness)
  /\ hw' = IF displayOn
           THEN applyDisplayHardwareState(TRUE, TargetBrightness(ambientBrightness))
           ELSE hw
  /\ UNCHANGED <<displayOn, displayTimer>>

\* variant: the override tick switches the display on
OverrideRule_TurnsOn(ambientBrightness) ==
  /\ displayOn' = TRUE
  /\ brightness' = TargetBrightness(ambientBrightness)
  /\ hw' = applyDisplayHardwareState(TRUE, TargetBrightness(ambientBrightness))
  /\ UNCHANGED displayTimer

\* manual override active: keep on/off, re-adjust brightness only when on
OverrideRule(ambientBrightness) ==
  /\ IF displayOn
     THEN /\ brightness' = TargetBrightness(ambientBrightness)
          /\ hw' = applyDisplayHardwareState(TRUE, TargetBrightness(ambientBrightness))
     ELSE UNCHANGED <<brightness, hw>>
  /\ UNCHANGED <<displayOn, displayTimer>>

\* variant: the schedule switches off but leaves the idle timer running
ScheduleRule_KeepsTimer ==
  /\ IF displayOn
     THEN /\ displayOn' = FALSE
          /\ hw' = applyDisplayHardwareState(FALSE, 0)
     ELSE UNCHANGED <<displayOn, hw>>
  /\ UNCHANGED <<displayTimer, brightness>>

\* inside the OFF window: force off, zero the idle timer
ScheduleRule ==
  /\ IF displayOn
     THEN /\ displayOn' = FALSE
          /\ hw' = applyDisplayHardwareState(FALSE, 0)
     ELSE UNCHANGED <<displayOn, hw>>
  /\ displayTimer' = 0
  /\ UNCHANGED brightness

\* variant: motion switches on without restarting the idle timer
MotionRule_KeepsTimer(ambientBrightness) ==
  /\ displayOn' = TRUE
  /\ brightness' = TargetBrightness(ambientBrightness)
  /\ hw' = applyDisplayHardwareState(TRUE, TargetBrightness(ambientBrightness))
  /\ UNCHANGED displayTimer

\* motion: turn on, reset the idle timer
MotionRule(ambientBrightness) ==
  /\ displayTimer' = DISPLAY_TIMEOUT
  /\ displayOn' = TRUE
  /\ brightness' = TargetBrightness(ambientBrightness)
  /\ hw' = applyDisplayHardwareState(TRUE, TargetBrightness(ambientBrightness))

\* variant: the tick that counts the timer down to 0 switches off at once
FadeRule_OffAtZero(ambientBrightness) ==
  LET b == map(displayTimer - 1, 0, DISPLAY_TIMEOUT, 1,
               TargetBrightness(ambientBrightness)) IN
  /\ displayTimer' = displayTimer - 1
  /\ IF displayTimer - 1 > 0
     THEN /\ brightness' = b
          /\ hw' = applyDisplayHardwareState(TRUE, b)
          /\ UNCHANGED displayOn
     ELSE /\ displayOn' = FALSE
          /\ hw' = applyDisplayHardwareState(FALSE, 0)
          /\ UNCHANGED brightness

\* no motion, timer running: count down and fade
FadeRule(ambientBrightness) ==
  LET targetBrightness == TargetBrightness(ambientBrightness)
      b == map(displayTimer - 1, 0, DISPLAY_TIMEOUT, 1, targetBrightness) IN
  /\ displayTimer' = displayTimer - 1
  /\ brightness' = b
  /\ hw' = applyDisplayHardwareState(TRUE, b)
  /\ UNCHANGED displayOn

\* variant: an expired timer does not switch the display off
ExpiredRule_StaysOn ==
  /\ displayTimer' = 0
  /\ UNCHANGED <<displayOn, hw, brightness>>

\* no motion, timer expired: turn off
ExpiredRule ==
  /\ IF displayOn
     THEN /\ displayOn' = FALSE
          /\ hw' = applyDisplayHardwareState(FALSE, 0)
     ELSE UNCHANGED <<displayOn, hw>>
  /\ displayTimer' = 0
  /\ UNCHANGED brightness

\* variant: the schedule is consulted before the manual override
SelectRule_ScheduleFirst(override, within, pir) ==
  IF within THEN "schedule"
  ELSE IF override THEN "override"
  ELSE IF pir THEN "motion"
  ELSE IF displayTimer > 0 THEN "fade"
  ELSE "expired"

\* the if/else priority chain after the grace check: which rule a tick applies,
\* given the override flag after the expiry check, the schedule evaluation and
\* the motion sample
SelectRule(override, within, pir) ==
  IF override THEN "override"
  ELSE IF within THEN "schedule"
  ELSE IF pir THEN "motion"
  ELSE IF displayTimer > 0 THEN "fade"
  ELSE "expired"

\* requires hours24', minutes' and the schedule fields of the tick to be set
handleBrightnessAndMotion(ldr, pir) ==
  IF GraceActive
  THEN /\ GraceRule(ldr)
       /\ rule' = "grace"
       /\ cancelled' = FALSE
       /\ overruled' = TRUE
       /\ idleTicks' = 0
       /\ UNCHANGED userChoice
  ELSE LET ambientBrightness == computeAmbientBrightnessFromLdr(ldr)
           override == displayManualOverride /\ ~OverrideExpired
           r == SelectRule(override, isWithinScheduleOffWindow', pir) IN
       /\ SampleInputs(ldr, pir)
       /\ withinOffWindow' = isWithinScheduleOffWindow'
       /\ displayManualOverride' = override
       /\ UNCHANGED displayManualOverrideTimeout
       /\ CASE r = "override" -> OverrideRule(ambientBrightness)
            [] r = "schedule" -> ScheduleRule
            [] r = "motion" -> MotionRule(ambientBrightness)
            [] r = "fade" -> FadeRule(ambientBrightness)
            [] r = "expired" -> ExpiredRule
       /\ rule' = r
       /\ cancelled' = OverrideExpired
       /\ idleTicks' = IF r \in {"fade", "expired"} THEN idleTicks + 1 ELSE 0
       /\ UNCHANGED <<userChoice, overruled>>

\* ------------------------------------------------------------ control loop
updateTime(t) ==
  /\ hours24' = t[1]
  /\ hours' = hours12(t[1])
  /\ minutes' = t[2]

\* variant: the render is gated on displayOn as the previous tick left it
LoopRenders_Stale == displayOn

\* if (displayOn) after handleBrightnessAndMotion()
LoopRenders == displayOn'

\* one loop() iteration at clock sample t, LDR reading ldr, PIR sample pir, lasting d ms
loopWith(t, ldr, pir, d) ==
  /\ d = LongStall => stalls < MaxStalls
  /\ updateTime(t)
  /\ currentMode' = newMode(now)
  /\ UNCHANGED <<schedule, config, boot, use24HourFormat, useFahrenheit>>
  /\ handleBrightnessAndMotion(ldr, pir)
  /\ scr' = IF LoopRenders
            THEN Draw(newMode(now), use24HourFormat, useFahrenheit, t[1], t[2])
            ELSE scr
  /\ rendered' = [web |-> pc = "served" /\ rendered.web, loop |-> LoopRenders]
  /\ digits' = IF LoopRenders
               THEN Draw(newMode(now), use24HourFormat, useFahrenheit, t[1], t[2])
               ELSE digits
  /\ showDots' = (Mod32(now, 1000) < 500)
  /\ UNCHANGED <<pixelData, call, xPos, yPos, seconds, day, month, year,
                 temperature, humidity, sensorAvailable>>
  /\ now' = Add32(now, M(d))
  /\ ticks' = ticks + 1
  /\ stalls' = IF d = LongStall THEN stalls + 1 ELSE stalls
  /\ pc' = "client"

loop ==
  \E t \in ClockSamples, ldr \in LdrSamples, pir \in PirSamples, d \in TickDurations :
    loopWith(t, ldr, pir, d)

\* ------------------------------------------------------------ web handlers
\* /display?mode: toggle on/off and start the manual override
HandleDisplay ==
  /\ pc = "client"
  /\ \E ldrNow \in LdrSamples :
       LET on == ~displayOn
           ambientBrightness == computeAmbientBrightnessFromLdr(ldrNow) IN
       /\ displayOn' = on
       /\ displayManualOverride' = TRUE
       /\ displayManualOverrideTimeout' = Add32(now, M(DISPLAY_MANUAL_OVERRIDE_DURATION))
       /\ lightLevel' = ldrNow
       /\ IF on
          THEN /\ brightness' = TargetBrightness(ambientBrightness)
               /\ hw' = applyDisplayHardwareState(TRUE, TargetBrightness(ambientBrightness))
          ELSE /\ hw' = applyDisplayHardwareState(FALSE, 0)
               /\ UNCHANGED brightness
       /\ userChoice' = IF on THEN "on" ELSE "off"
  /\ overruled' = FALSE
  /\ idleTicks' = 0
  /\ pc' = "served"
  /\ UNCHANGED <<panel, face>>
  /\ rendered' = NoRender
  /\ UNCHANGED <<currentMode, use24HourFormat, useFahrenheit, scr>>
  /\ UNCHANGED <<now, boot, clock, displayTimer, previousLightLevel,
                 lightLevelChanged, motionDetected, config, schedule, ticks, stalls,
                 withinOffWindow, rule, cancelled>>

\* variant: setting the manual value also restarts the idle timer
HandleBrightness_RestartsTimer ==
  /\ pc = "client"
  /\ \E mode \in BOOLEAN, value \in BrightnessArgs :
       IF mode
       THEN /\ brightnessManualOverride' = ~brightnessManualOverride
            /\ UNCHANGED <<manualBrightness, brightness, hw, displayTimer>>
       ELSE IF value # <<>>
       THEN /\ manualBrightness' = constrain(value[1], 1, 15)
            /\ brightness' = constrain(value[1], 1, 15)
            /\ hw' = [hw EXCEPT !.intensity = constrain(value[1], 1, 15)]
            /\ displayTimer' = DISPLAY_TIMEOUT
            /\ UNCHANGED brightnessManualOverride
       ELSE UNCHANGED <<config, brightness, hw, displayTimer>>
  /\ pc' = "served"
  /\ UNCHANGED <<panel, face>>
  /\ rendered' = NoRender
  /\ UNCHANGED <<now, boot, clock, displayOn,
                 displayManualOverride, displayManualOverrideTimeout, light,
                 schedule, ticks, stalls, withinOffWindow, history,
                 currentMode, use24HourFormat, useFahrenheit, scr>>

\* variant: the value is stored as sent
brightnessRequest_StoresRaw(mode, value) ==
  /\ pc = "client"
  /\ IF mode
     THEN /\ brightnessManualOverride' = ~brightnessManualOverride
          /\ UNCHANGED <<manualBrightness, brightness, hw>>
     ELSE IF value # <<>>
     THEN /\ manualBrightness' = value[1]
          /\ brightness' = value[1]
          /\ hw' = [hw EXCEPT !.intensity = value[1]]
          /\ UNCHANGED brightnessManualOverride
     ELSE UNCHANGED <<config, brightness, hw>>
  /\ pc' = "served"
  /\ UNCHANGED <<panel, face>>
  /\ rendered' = NoRender
  /\ UNCHANGED <<now, boot, clock, displayOn, displayTimer,
                 displayManualOverride, displayManualOverrideTimeout, light,
                 schedule, ticks, stalls, withinOffWindow, history,
                 currentMode, use24HourFormat, useFahrenheit, scr>>

\* /brightness?mode toggles auto/manual; /brightness?value=n sets the manual value
brightnessRequest(mode, value) ==
  /\ pc = "client"
  /\ IF mode
     THEN /\ brightnessManualOverride' = ~brightnessManualOverride
          /\ UNCHANGED <<manualBrightness, brightness, hw>>
     ELSE IF value # <<>>
     THEN /\ manualBrightness' = constrain(value[1], 1, 15)
          /\ brightness' = constrain(value[1], 1, 15)
          /\ hw' = [hw EXCEPT !.intensity = constrain(value[1], 1, 15)]
          /\ UNCHANGED brightnessManualOverride
     ELSE UNCHANGED <<config, brightness, hw>>
  /\ pc' = "served"
  /\ UNCHANGED <<panel, face>>
  /\ rendered' = NoRender
  /\ UNCHANGED <<now, boot, clock, displayOn, displayTimer,
                 displayManualOverride, displayManualOverrideTimeout, light,
                 schedule, ticks, stalls, withinOffWindow, history,
                 currentMode, use24HourFormat, useFahrenheit, scr>>

\* the /brightness requests explored together with the control loop
HandleBrightness ==
  \E mode \in BOOLEAN, value \in BrightnessArgs : brightnessRequest(mode, value)

\* /brightness with any sampled value
HandleBrightnessAny ==
  \E mode \in BOOLEAN, value \in IntArgs : brightnessRequest(mode, value)

\* variant: an argument outside its domain is rejected and the field kept
scheduleRequest_RejectsOutOfRange(enabled, start_hour, start_min, end_hour, end_min) ==
  /\ pc = "client"
  /\ scheduleOffEnabled' = IF enabled # <<>> THEN enabled[1] = "1"
                           ELSE scheduleOffEnabled
  /\ scheduleOffStartHour' = IF start_hour # <<>> /\ start_hour[1] \in 0 .. 23
                             THEN start_hour[1] ELSE scheduleOffStartHour
  /\ scheduleOffStartMinute' = IF start_min # <<>> /\ start_min[1] \in 0 .. 59
                               THEN start_min[1] ELSE scheduleOffStartMinute
  /\ scheduleOffEndHour' = IF end_hour # <<>> /\ end_hour[1] \in 0 .. 23
                           THEN end_hour[1] ELSE scheduleOffEndHour
  /\ scheduleOffEndMinute' = IF end_min # <<>> /\ end_min[1] \in 0 .. 59
                             THEN end_min[1] ELSE scheduleOffEndMinute
  /\ pc' = "served"
  /\ UNCHANGED <<panel, face>>
  /\ rendered' = NoRender
  /\ UNCHANGED <<now, boot, clock, power, light, config, hw, ticks, stalls,
                 withinOffWindow, history, currentMode, use24HourFormat, useFahrenheit,
                 scr>>

\* /schedule: each argument present is clamped and stored
scheduleRequest(enabled, start_hour, start_min, end_hour, end_min) ==
  /\ pc = "client"
  /\ scheduleOffEnabled' = IF enabled # <<>> THEN enabled[1] = "1"
                           ELSE scheduleOffEnabled
  /\ scheduleOffStartHour' = IF start_hour # <<>>
                             THEN constrain(start_hour[1], 0, 23)
                             ELSE scheduleOffStartHour
  /\ scheduleOffStartMinute' = IF start_min # <<>>
                               THEN constrain(start_min[1], 0, 59)
                               ELSE scheduleOffStartMinute
  /\ scheduleOffEndHour' = IF end_hour # <<>>
                           THEN constrain(end_hour[1], 0, 23)
                           ELSE scheduleOffEndHour
  /\ scheduleOffEndMinute' = IF end_min # <<>>
                             THEN constrain(end_min[1], 0, 59)
                             ELSE scheduleOffEndMinute
  /\ pc' = "served"
  /\ UNCHANGED <<panel, face>>
  /\ rendered' = NoRender
  /\ UNCHANGED <<now, boot, clock, power, light, config, hw, ticks, stalls,
                 withinOffWindow, history, currentMode, use24HourFormat, useFahrenheit,
                 scr>>

\* the /schedule requests explored together with the control loop
HandleSchedule ==
  \E enabled \in EnabledArgs, start_hour \in StartHourArgs :
    scheduleRequest(enabled, start_hour, <<>>, <<>>, <<>>)

\* /schedule with any sampled arguments
HandleScheduleAny ==
  \E enabled \in EnabledArgs, start_hour \in IntArgs, start_min \in IntArgs,
     end_hour \in IntArgs, end_min \in IntArgs :
    scheduleRequest(enabled, start_hour, start_min, end_hour, end_min)

\* variant: the immediate redraw is not gated
WebRenders_Always == TRUE

\* if (displayOn) in the /timeformat and /temperature handlers
WebRenders == displayOn

\* /timeformat?mode: toggle 12/24-hour format and redraw at once
HandleTimeFormat ==
  /\ pc = "client"
  /\ \E mode \in BOOLEAN :
       IF mode
       THEN /\ use24HourFormat' = ~use24HourFormat
            /\ scr' = IF WebRenders
                      THEN Draw(currentMode, ~use24HourFormat, useFahrenheit,
                                hours24, minutes)
                      ELSE scr
            /\ rendered' = [web |-> WebRenders, loop |-> FALSE]
            /\ digits' = IF WebRenders
                         THEN Draw(currentMode, ~use24HourFormat, useFahrenheit,
                                   hours24, minutes)
                         ELSE digits
       ELSE /\ UNCHANGED <<use24HourFormat, scr>>
            /\ rendered' = NoRender
            /\ UNCHANGED digits
  /\ pc' = "served"
  /\ UNCHANGED <<pixelData, call, xPos, yPos, face>>
  /\ UNCHANGED <<now, boot, clock, power, light, config, schedule, hw, ticks,
                 stalls, withinOffWindow, history, currentMode, useFahrenheit>>

\* /temperature?mode: toggle Celsius/Fahrenheit and redraw at once
HandleTemperature ==
  /\ pc = "client"
  /\ \E mode \in BOOLEAN :
       IF mode
       THEN /\ useFahrenheit' = ~useFahrenheit
            /\ scr' = IF WebRenders
                      THEN Draw(currentMode, use24HourFormat, ~useFahrenheit,
                                hours24, minutes)
                      ELSE scr
            /\ rendered' = [web |-> WebRenders, loop |-> FALSE]
            /\ digits' = IF WebRenders
                         THEN Draw(currentMode, use24HourFormat, ~useFahrenheit,
                                   hours24, minutes)
                         ELSE digits
       ELSE /\ UNCHANGED <<useFahrenheit, scr>>
            /\ rendered' = NoRender
            /\ UNCHANGED digits
  /\ pc' = "served"
  /\ UNCHANGED <<pixelData, call, xPos, yPos, face>>
  /\ UNCHANGED <<now, boot, clock, power, light, config, schedule, hw, ticks,
                 stalls, withinOffWindow, history, currentMode, use24HourFormat>>

\* loop() with the web server reachable
Loop == ticks < MaxTicks /\ loop

\* loop() with no client connected
QuietLoop == ticks < MaxRunTicks /\ pc = "client" /\ loop

Next == Loop \/ HandleDisplay \/ HandleBrightness \/ HandleSchedule

Spec == Init /\ [][Next]_vars

NextQuiet == QuietLoop

SpecQuiet == Init /\ [][NextQuiet]_vars

\* loop() with the display toggle and the two redrawing handlers reachable
NextRender == Loop \/ HandleDisplay \/ HandleTimeFormat \/ HandleTemperature

SpecRender == Init /\ [][NextRender]_vars

\* the rest of the state, left alone by the display operations
control == <<now, boot, clock, power, light, config, schedule, hw, ticks, stalls,
             withinOffWindow, history, currentMode, use24HourFormat, useFahrenheit,
             rendered>>

RefreshRot90 ==
  /\ pc = "client"
  /\ digits' = refreshAllRot90(scr)
  /\ call' = [op |-> "refreshAllRot90"]
  /\ pc' = "refreshed"
  /\ UNCHANGED <<control, scr, pixelData, xPos, yPos, face>>

RefreshRot270 ==
  /\ pc = "client"
  /\ digits' = refreshAllRot270(scr)
  /\ call' = [op |-> "refreshAllRot270"]
  /\ pc' = "refreshed"
  /\ UNCHANGED <<control, scr, pixelData, xPos, yPos, face>>

RefreshPlain ==
  /\ pc = "client"
  /\ digits' = refreshAllPlain(scr)
  /\ call' = [op |-> "refreshAll"]
  /\ pc' = "refreshed"
  /\ UNCHANGED <<control, scr, pixelData, xPos, yPos, face>>

HandleApiDisplay ==
  /\ pc = "client"
  /\ pixelData' = apiDisplay(scr)
  /\ call' = [op |-> "apiDisplay"]
  /\ pc' = "reported"
  /\ UNCHANGED <<control, scr, digits, xPos, yPos, face>>

NextPanel == RefreshRot90 \/ RefreshRot270 \/ RefreshPlain \/ HandleApiDisplay

SpecPanel == InitPanel /\ [][NextPanel]_vars

\* yPos = y; printCharX(ch, font, x)
PrintCharX ==
  /\ pc = "client"
  /\ \E ch \in CharSamples, font \in Fonts, x \in ColumnSamples, y \in {0, 1} :
       /\ ~Wild(ch, font, x, y)
       /\ LET r == printCharX(scr, ch, font, x, y) IN
          /\ scr' = r.scr
          /\ call' = [op |-> "printCharX", ch |-> ch, font |-> font, x |-> x, y |-> y,
                       w |-> r.w, before |-> scr]
       /\ yPos' = y
  /\ pc' = "drawn"
  /\ UNCHANGED <<control, digits, pixelData, xPos, face>>

\* showMessage(message): clr, text in font3x7 from the top left corner, refreshAll
ShowMessage ==
  /\ pc = "client"
  /\ \E message \in Messages :
       LET pen == printString([scr |-> clr(scr), xPos |-> 0, wild |-> FALSE],
                              message, font3x7, 0) IN
       /\ ~pen.wild
       /\ scr' = pen.scr
       /\ xPos' = pen.xPos
       /\ yPos' = 0
       /\ digits' = refreshAllRot90(pen.scr)
       /\ call' = [op |-> "showMessage", message |-> message, before |-> scr]
  /\ pc' = "shown"
  /\ UNCHANGED <<control, pixelData, face>>

\* character codes the widths are asked for: every code of the largest font range
\* and one code on either side
WidthCodes == 31 .. 96

\* charWidth(ch, font) for a code and a shipped font
CharWidth ==
  /\ pc = "client"
  /\ \E ch \in WidthCodes, font \in Fonts :
       call' = [op |-> "charWidth", ch |-> ch, font |-> font, w |-> charWidth(ch, font)]
  /\ pc' = "measured"
  /\ UNCHANGED <<control, scr, digits, pixelData, xPos, yPos, face>>

NextWidth == CharWidth \/ PrintCharX

SpecWidth == InitGlyph /\ [][NextWidth]_vars

NextGlyph == PrintCharX \/ ShowMessage

SpecGlyph == InitGlyph /\ [][NextGlyph]_vars

\* yPos as the display function leaves it
Framed(pen, op, y) ==
  /\ ~pen.wild
  /\ scr' = pen.scr
  /\ xPos' = pen.xPos
  /\ yPos' = y
  /\ call' = [op |-> op, before |-> scr]
  /\ pc' = "framed"
  /\ UNCHANGED <<control, digits, pixelData, face>>

DisplayTimeAndTemp ==
  pc = "client" /\ Framed(displayTimeAndTemp(scr, Globals), "displayTimeAndTemp", 1)

DisplayTimeLarge ==
  pc = "client" /\ Framed(displayTimeLarge(scr, Globals), "displayTimeLarge", 0)

DisplayTimeAndDate ==
  pc = "client" /\ Framed(displayTimeAndDate(scr, Globals), "displayTimeAndDate", 1)

NextDrawn == DisplayTimeAndTemp \/ DisplayTimeLarge \/ DisplayTimeAndDate

SpecDrawn == InitDrawn /\ [][NextDrawn]_vars

\* ------------------------------------------------------------ time zone and NTP
\* sizeof(timezones) / sizeof(timezones[0]): entries of the table in timezones.h
numTimezones == 89

\* polls the wait loop of syncNTP allows: while (... && attempts < 20)
NTP_MAX_ATTEMPTS == 20

\* values of the tz argument, as characters; <<>>: the request carries no tz
TzArgs ==
  { <<>>, << <<>> >>, << <<"0">> >>, << <<"7">> >>, << <<"8", "8">> >>,
    << <<"8", "9">> >>, << <<"1", "0", "0">> >>, << <<"-", "1">> >>,
    << <<"-", "0">> >>, << <<"+", "7">> >>, << <<" ", "5">> >>,
    << <<"a", "b", "c">> >>, << <<"1", "2", "x">> >> }

DigitValue ==
  [c \in {"0", "1", "2", "3", "4", "5", "6", "7", "8", "9"} |->
     CASE c = "0" -> 0 [] c = "1" -> 1 [] c = "2" -> 2 [] c = "3" -> 3 [] c = "4" -> 4
       [] c = "5" -> 5 [] c = "6" -> 6 [] c = "7" -> 7 [] c = "8" -> 8 [] c = "9" -> 9]

\* the digits atol consumes: up to the first character that is no digit
RECURSIVE leadingDigits(_, _)
leadingDigits(str, acc) ==
  IF str = <<>> \/ Head(str) \notin DOMAIN DigitValue
  THEN acc
  ELSE leadingDigits(Tail(str), 10 * acc + DigitValue[Head(str)])

RECURSIVE skipSpaces(_)
skipSpaces(str) ==
  IF str # <<>> /\ Head(str) = " " THEN skipSpaces(Tail(str)) ELSE str

\* String::toInt(): atol of the buffer; leading blanks, an optional sign, digits
toInt(str) ==
  LET t == skipSpaces(str) IN
  IF t = <<>> THEN 0
  ELSE IF Head(t) = "-" THEN 0 - leadingDigits(Tail(t), 0)
  ELSE IF Head(t) = "+" THEN leadingDigits(Tail(t), 0)
  ELSE leadingDigits(t, 0)

\* variant: the upper end of the table is not checked
TimezoneInRange_NoUpperBound(newTimezone) == newTimezone >= 0

\* newTimezone >= 0 && newTimezone < numTimezones
TimezoneInRange(newTimezone) == newTimezone >= 0 /\ newTimezone < numTimezones

\* syncNTP() up to its wait loop: configTime(tzString, NTP_SERVERS); attempts = 0
syncBegin ==
  /\ attempts' = 0
  /\ polls' = 0
  /\ timeSet' = FALSE
  /\ syncs' = syncs + 1
  /\ UNCHANGED syncResult

\* /timezone?tz: select the time zone and re-sync; the handler answers once
\* syncNTP() has returned
HandleTimezone ==
  /\ pc = "client"
  /\ syncs < MaxSyncs
  /\ \E tz \in TzArgs :
       /\ call' = [op |-> "timezone", tz |-> tz]
       /\ IF tz # <<>> /\ TimezoneInRange(toInt(tz[1]))
          THEN /\ currentTimezone' = toInt(tz[1])
               /\ syncBegin
               /\ pc' = "sync"
          ELSE /\ UNCHANGED zone
               /\ pc' = "served"
  /\ UNCHANGED <<now, startupTime, clock, power, light, config, schedule, hw, ticks,
                 stalls, withinOffWindow, history, matrix, digits, pixelData, xPos, yPos,
                 face>>

\* variant: the wait loop gives up one delay earlier
KeepsWaiting_OneShort(valid) == ~valid /\ attempts < NTP_MAX_ATTEMPTS - 1

\* !time(nullptr) && attempts < 20, time(nullptr) being nonzero iff valid
KeepsWaiting(valid) == ~valid /\ attempts < NTP_MAX_ATTEMPTS

\* one evaluation of the wait loop's condition, and the loop body if it holds
SyncPoll ==
  /\ pc = "sync"
  /\ \E valid \in BOOLEAN :
       /\ polls' = polls + 1
       /\ timeSet' = valid
       /\ IF KeepsWaiting(valid)
          THEN attempts' = attempts + 1 /\ pc' = "sync"
          ELSE UNCHANGED attempts /\ pc' = "exit"
  /\ UNCHANGED <<currentTimezone, syncResult, syncs>>
  /\ UNCHANGED <<now, startupTime, clock, power, light, config, schedule, hw, ticks,
                 stalls, withinOffWindow, history, matrix, panel, face>>

\* variant: the return value follows the last poll
SyncFailed_ByLastPoll == ~timeSet

\* if (attempts >= 20) return false;
SyncFailed == attempts >= NTP_MAX_ATTEMPTS

\* after the wait loop: give up, or updateTime() and report success; the
\* /timezone handler then sends its answer
SyncReturn ==
  /\ pc = "exit"
  /\ IF SyncFailed
     THEN /\ syncResult' = <<FALSE>>
          /\ UNCHANGED clock
     ELSE /\ syncResult' = <<TRUE>>
          /\ \E t \in ClockSamples : updateTime(t)
  /\ pc' = "served"
  /\ UNCHANGED <<currentTimezone, attempts, polls, timeSet, syncs>>
  /\ UNCHANGED <<now, startupTime, power, light, config, schedule, hw, ticks,
                 stalls, withinOffWindow, history, matrix, panel, face>>

\* loop() between two requests
ZoneLoop ==
  /\ ticks < MaxZoneTicks
  /\ pc \in {"client", "served"}
  /\ \E pir \in PirSamples : loopWith(<<12, 0>>, 512, pir, TickDelay)

NextZone == HandleTimezone \/ SyncPoll \/ SyncReturn \/ ZoneLoop

SpecZone == Init /\ [][NextZone]_vars

\* variant: a status request counts as activity and restarts the idle timer
HandleApiAll_RestartsTimer ==
  /\ pc = "client"
  /\ lightLevelChanged' = FALSE
  /\ displayTimer' = DISPLAY_TIMEOUT
  /\ call' = [op |-> "apiAll", light_changed |-> lightLevelChanged,
               within_schedule |-> isWithinScheduleOffWindow]
  /\ pc' = "reported"
  /\ UNCHANGED <<now, boot, clock, displayOn, brightness, displayManualOverride,
                 displayManualOverrideTimeout, lightLevel, previousLightLevel,
                 motionDetected, config, schedule, hw, ticks, stalls, withinOffWindow,
                 history, matrix, digits, pixelData, xPos, yPos, face>>

\* /api/all: report the status, then clear the light-changed flag
HandleApiAll ==
  /\ pc = "client"
  /\ lightLevelChanged' = FALSE
  /\ call' = [op |-> "apiAll", light_changed |-> lightLevelChanged,
               within_schedule |-> isWithinScheduleOffWindow]
  /\ pc' = "reported"
  /\ UNCHANGED <<now, boot, clock, power, lightLevel, previousLightLevel,
                 motionDetected, config, schedule, hw, ticks, stalls, withinOffWindow,
                 history, matrix, digits, pixelData, xPos, yPos, face>>

\* loop() with any sampled LDR reading
LightLoop ==
  /\ ticks < MaxLightTicks
  /\ \E ldr \in LightSamples, pir \in PirSamples : loopWith(<<12, 0>>, ldr, pir, TickDelay)

NextLight == LightLoop \/ HandleApiAll

SpecLight == InitAfterGrace /\ [][NextLight]_vars

\* the status and the mirror endpoint
NextMirror == HandleApiAll \/ HandleApiDisplay

SpecMirror == InitMirror /\ [][NextMirror]_vars

\* the display modes at the ends of the valid input ranges
SpecBounds == InitBounds /\ [][NextDrawn]_vars

\* loop() with /display, /schedule and /brightness with any sampled value
RangeLoop == ticks < MaxRangeTicks /\ loop

NextRange == RangeLoop \/ HandleDisplay \/ HandleBrightnessAny \/ HandleSchedule

SpecRange == Init /\ [][NextRange]_vars

\* loop() while millis() wraps
WrapLoop == ticks < MaxWrapTicks /\ loop

NextWrap == WrapLoop \/ HandleDisplay

SpecWrap == InitWrap /\ [][NextWrap]_vars

\* the two configuration handlers on any stored configuration
NextConfig == HandleScheduleAny \/ HandleBrightnessAny

SpecConfig == InitConfig /\ [][NextConfig]_vars

\* bool withinOffWindow = isWithinScheduleOffWindow();
EvalWindow ==
  /\ pc = "client"
  /\ withinOffWindow' = isWithinScheduleOffWindow
  /\ pc' = "window"
  /\ UNCHANGED <<panel, face>>
  /\ UNCHANGED <<now, boot, clock, power, light, config, schedule, hw, ticks,
                 stalls, history, matrix>>

NextWindow == EvalWindow

SpecWindow == InitWindow /\ [][NextWindow]_vars

\* int ambientBrightness = computeAmbientBrightnessFromLdr(lightLevel);
\* brightness = brightnessManualOverride ? manualBrightness : ambientBrightness;
EvalAmbient ==
  /\ pc = "client"
  /\ brightness' = TargetBrightness(computeAmbientBrightnessFromLdr(lightLevel))
  /\ pc' = "ambient"
  /\ UNCHANGED <<panel, face>>
  /\ UNCHANGED <<now, boot, clock, displayOn, displayTimer, displayManualOverride,
                 displayManualOverrideTimeout, light, config, schedule, hw, ticks,
                 stalls, withinOffWindow, history, matrix>>

NextLdr == EvalAmbient

SpecLdr == InitLdr /\ [][NextLdr]_vars

\* int targetBrightness = brightnessManualOverride ? manualBrightness : ambientBrightness;
\* brightness = map(displayTimer, 0, DISPLAY_TIMEOUT, 1, targetBrightness);
EvalFade ==
  /\ pc = "client"
  /\ brightness' = map(displayTimer, 0, DISPLAY_TIMEOUT, 1,
                       TargetBrightness(computeAmbientBrightnessFromLdr(lightLevel)))
  /\ pc' = "fade"
  /\ UNCHANGED <<panel, face>>
  /\ UNCHANGED <<now, boot, clock, displayOn, displayTimer, displayManualOverride,
                 displayManualOverrideTimeout, light, config, schedule, hw, ticks,
                 stalls, withinOffWindow, history, matrix>>

NextFade == EvalFade

SpecFade == InitFade /\ [][NextFade]_vars

\* the mode selection of loop()
SelectMode ==
  /\ pc = "client"
  /\ currentMode' = newMode(now)
  /\ pc' = "mode"
  /\ UNCHANGED <<panel, face>>
  /\ UNCHANGED <<now, boot, clock, power, light, config, schedule, hw, ticks,
                 stalls, withinOffWindow, history, use24HourFormat, useFahrenheit, scr,
                 rendered>>

NextMode == SelectMode

SpecMode == InitModeTimes /\ [][NextMode]_vars

\* ------------------------------------------------------------ properties
\* value of an unsigned long below 2^31
ToInt(m) == m[1] * Limb + m[2]

\* the step is one loop() iteration
IsTick == ticks' = ticks + 1

\* the state is the end of a control-loop tick
EndOfTick == pc = "client" /\ ticks > 0

\* millis() - startupTime < STARTUP_GRACE_PERIOD in the tick being taken
GraceAtTick == ToInt(now) - ToInt(startupTime) < STARTUP_GRACE_PERIOD

\* the tick being taken finds the manual override expired
ExpiredAtTick == ToInt(now) > ToInt(displayManualOverrideTimeout)

\* the tick being taken runs under automatic control and samples no motion
AutoNoMotionTick ==
  /\ IsTick
  /\ ~GraceAtTick
  /\ ~displayManualOverride'
  /\ ~isWithinScheduleOffWindow'
  /\ ~motionDetected'

\* brightness the tick being taken aims at: manual value or ambient value of its reading
TickTarget == IF brightnessManualOverride THEN manualBrightness
              ELSE computeAmbientBrightnessFromLdr(lightLevel')

\* C1: at the end of every tick the on/off state last commanded to the driver
\* chain (data of the last CMD_SHUTDOWN) equals displayOn.
C1_HardwareFollowsDisplayOn ==
  EndOfTick => ((hw.shutdown = 1) <=> displayOn)

\* C2: in every tick taken while the startup grace period is active, displayOn is
\* true and displayTimer is DISPLAY_TIMEOUT afterwards, whatever the schedule, the
\* manual override, the motion input or a /display toggle handled in the tick.
C2_GraceForcesOn ==
  [][(IsTick /\ GraceAtTick) => (displayOn' /\ displayTimer' = DISPLAY_TIMEOUT)]_vars

C2_Witness ==
  /\ EndOfTick /\ rule = "grace"
  /\ isWithinScheduleOffWindow
  /\ displayManualOverride /\ userChoice = "off"
  /\ displayOn /\ displayTimer = DISPLAY_TIMEOUT

C4_ScheduleForcesOff ==
  [][(IsTick /\ ~GraceAtTick /\ ~displayManualOverride /\ isWithinScheduleOffWindow')
       => (~displayOn' /\ displayTimer' = 0)]_vars

C4_Witness ==
  /\ EndOfTick /\ rule = "schedule" /\ ~cancelled
  /\ motionDetected
  /\ ~displayOn /\ displayTimer = 0

\* C5 (as claimed): at the end of every tick in which the manual override is
\* active, displayOn equals the value set by the most recent /display toggle.
C5_OverrideKeepsUserChoice ==
  (EndOfTick /\ displayManualOverride) => (displayOn <=> userChoice = "on")

\* C5 (amended): at the end of every tick in which the manual override is active
\* and no startup-grace tick has run since the most recent /display toggle,
\* displayOn equals the value set by that toggle.
C5_OverrideKeepsUserChoiceAfterGrace ==
  (EndOfTick /\ displayManualOverride /\ ~overruled)
    => (displayOn <=> userChoice = "on")

C5_Witness ==
  /\ EndOfTick /\ rule = "override"
  /\ displayManualOverride /\ ~overruled /\ userChoice = "off"
  /\ motionDetected /\ ~isWithinScheduleOffWindow
  /\ ~displayOn

\* C6: after grace, with no active override and outside the off-window, a tick that
\* detects motion leaves displayOn true, displayTimer = DISPLAY_TIMEOUT and
\* brightness = manualBrightness in manual mode, else the ambient brightness of the
\* tick's own LDR reading.
C6_MotionTurnsOn ==
  [][(IsTick /\ ~GraceAtTick /\ ~displayManualOverride'
        /\ ~isWithinScheduleOffWindow' /\ motionDetected')
       => /\ displayOn'
          /\ displayTimer' = DISPLAY_TIMEOUT
          /\ brightness' = TickTarget]_vars

C6_Witness ==
  /\ EndOfTick /\ rule = "motion"
  /\ ~brightnessManualOverride
  /\ lightLevel = 0 /\ brightness = 14
  /\ displayOn /\ displayTimer = DISPLAY_TIMEOUT
  /\ idleTicks = 0 /\ ~GraceActive /\ ticks > 2

\* C7 (as claimed): a no-motion tick under automatic control decrements the idle
\* timer; a decremented value still positive holds the display on with the faded
\* intensity, a decremented value of zero turns the display off.
C7_DecrementThenOffAtZero ==
  [][(AutoNoMotionTick /\ displayTimer > 0)
       => /\ displayTimer' = displayTimer - 1
          /\ displayTimer' > 0 =>
               /\ hw'.shutdown = 1
               /\ brightness' = map(displayTimer', 0, DISPLAY_TIMEOUT, 1, TickTarget)
          /\ displayTimer' = 0 => ~displayOn']_vars

\* C7 (amended): a no-motion tick under automatic control that starts with
\* displayTimer > 0 decrements it, commands the chain on with the intensity
\* map(displayTimer', 0, DISPLAY_TIMEOUT, 1, target) and leaves displayOn as it was,
\* also when the decremented value is 0 (intensity 1); only a tick that starts with
\* displayTimer = 0 turns the display off.
C7_DecrementThenOffNextTick ==
  [][AutoNoMotionTick
       => IF displayTimer > 0
          THEN /\ displayTimer' = displayTimer - 1
               /\ brightness' = map(displayTimer', 0, DISPLAY_TIMEOUT, 1, TickTarget)
               /\ hw'.shutdown = 1
               /\ hw'.intensity = constrain(brightness', 0, 15)
               /\ displayOn' = displayOn
          ELSE /\ displayTimer' = 0
               /\ ~displayOn'
               /\ displayOn => hw'.shutdown = 0]_vars

C7_Witness ==
  /\ EndOfTick /\ rule = "fade"
  /\ displayTimer = 0
  /\ displayOn /\ hw.shutdown = 1 /\ hw.intensity = 1 /\ brightness = 1

\* C8: under automatic control the display is turned off by the idle timeout only
\* after DISPLAY_TIMEOUT seconds without motion, each tick lasting TickDelay ms.
C8_OffAfterSixtySeconds ==
  [][(AutoNoMotionTick /\ displayOn /\ ~displayOn')
       => idleTicks' * TickDelay >= DISPLAY_TIMEOUT * 1000]_vars

\* C9: under automatic control with no motion the display is turned off (displayOn
\* false) after at most DISPLAY_TIMEOUT + 1 consecutive ticks, and once it is off no
\* tick outside the grace period that samples no motion turns it back on.
C9_IdleTurnsOffAndStaysOff ==
  /\ [](idleTicks > DISPLAY_TIMEOUT => ~displayOn)
  /\ [][(IsTick /\ ~GraceAtTick /\ ~motionDetected' /\ ~displayOn) => ~displayOn']_vars

C9_Witness ==
  /\ EndOfTick /\ rule = "expired"
  /\ idleTicks > DISPLAY_TIMEOUT + 1
  /\ ~displayOn /\ displayTimer = 0 /\ hw.shutdown = 0

\* minute of the day m lies in the half-open interval [s, e) taken cyclically
InCyclicWindow(m, s, e) == (m - s + 1440) % 1440 < (e - s + 1440) % 1440

\* C10: for an enabled schedule with start # end the schedule evaluation is true
\* exactly when the minute of the day lies in [start, end) taken cyclically over 24
\* hours; for a disabled schedule it is false at every time.
C10_WindowIsCyclicInterval ==
  (pc = "window"
     /\ (~scheduleOffEnabled
           \/ scheduleOffStartHour # scheduleOffEndHour
           \/ scheduleOffStartMinute # scheduleOffEndMinute))
    => (withinOffWindow <=>
          /\ scheduleOffEnabled
          /\ InCyclicWindow(hours24 * 60 + minutes,
                            scheduleOffStartHour * 60 + scheduleOffStartMinute,
                            scheduleOffEndHour * 60 + scheduleOffEndMinute))

C10_Witness ==
  /\ pc = "window" /\ withinOffWindow
  /\ scheduleOffEnabled
  /\ scheduleOffStartHour = 22 /\ scheduleOffStartMinute = 0
  /\ scheduleOffEndHour = 6 /\ scheduleOffEndMinute = 0
  /\ hours24 = 5 /\ minutes = 59

\* the stored off window starts and ends at the same hour and minute
EmptyWindow ==
  /\ scheduleOffStartHour = scheduleOffEndHour
  /\ scheduleOffStartMinute = scheduleOffEndMinute

\* C11: when the off start time equals the off end time, isWithinScheduleOffWindow
\* returns false at every time of day, whether the schedule is enabled or not.
C11_EqualStartEndNeverWithin ==
  (pc = "window" /\ EmptyWindow) => ~withinOffWindow

\* an enabled schedule with start = end = 22:00, evaluated at 23:00 and found not within
C11_Witness ==
  /\ pc = "window" /\ scheduleOffEnabled /\ EmptyWindow
  /\ scheduleOffStartHour = 22 /\ scheduleOffStartMinute = 0
  /\ hours24 = 23 /\ minutes = 0
  /\ ~withinOffWindow

\* C12: ambient brightness is monotonically non-decreasing in the raw reading: for
\* all readings r1 < r2, computeAmbientBrightnessFromLdr(r1) <= computeAmbientBrightnessFromLdr(r2).
C12_AmbientNonDecreasing ==
  pc = "ambient" =>
    \A r1 \in LdrRange :
      r1 < lightLevel => computeAmbientBrightnessFromLdr(r1) <= brightness

\* C12 as the code has it: ambient brightness is monotonically non-increasing in the
\* raw reading (a low reading is bright, a high reading is dark): for all readings
\* r1 < r2, computeAmbientBrightnessFromLdr(r1) >= computeAmbientBrightnessFromLdr(r2).
C12_AmbientNonIncreasing ==
  pc = "ambient" =>
    \A r1 \in LdrRange :
      r1 < lightLevel => computeAmbientBrightnessFromLdr(r1) >= brightness

\* the highest reading got a strictly lower brightness than reading 0 gets
C12_Witness ==
  /\ pc = "ambient" /\ lightLevel = AdcMax
  /\ brightness < computeAmbientBrightnessFromLdr(0)

\* C13: the boundary readings map to the extreme intensities:
\* computeAmbientBrightnessFromLdr(0) = 1 and computeAmbientBrightnessFromLdr(1023) = 15.
C13_BoundariesOneAndFifteen ==
  pc = "ambient" =>
    /\ lightLevel = 0 => brightness = 1
    /\ lightLevel = 1023 => brightness = 15

\* C13 as the code has it: computeAmbientBrightnessFromLdr(0) = 14 and
\* computeAmbientBrightnessFromLdr(1023) = 0.
C13_BoundariesFourteenAndZero ==
  pc = "ambient" =>
    /\ lightLevel = 0 => brightness = 14
    /\ lightLevel = 1023 => brightness = 0

C13_Witness == pc = "ambient" /\ lightLevel = 1023 /\ brightness = 0

\* C14: every reading, negative ones and ones above 1023 included, gets the value of
\* the reading clamped into 0..1023, and the result lies within 0..15.
C14_ClampedAndInDomain ==
  pc = "ambient" =>
    /\ brightness = computeAmbientBrightnessFromLdr(constrain(lightLevel, 0, 1023))
    /\ brightness \in 0 .. 15

\* a negative reading and a reading above 1023 were mapped
C14_Witness ==
  /\ pc = "ambient"
  /\ \/ lightLevel < 0 /\ brightness = 14
     \/ lightLevel > 1023 /\ brightness = 0

\* target the idle fade starts from: manual value or ambient value of the reading
FadeTarget == TargetBrightness(computeAmbientBrightnessFromLdr(lightLevel))

\* C15: for every target brightness the machine can select (ambient or manual) and
\* every timer value 0..DISPLAY_TIMEOUT, map(timer, 0, DISPLAY_TIMEOUT, 1, target) is 1
\* at timer 0, is target at timer DISPLAY_TIMEOUT, never exceeds target, and does
\* not rise as the timer counts down.
C15_FadeFromTargetDownToOne ==
  pc = "fade" =>
    /\ displayTimer = 0 => brightness = 1
    /\ displayTimer = DISPLAY_TIMEOUT => brightness = FadeTarget
    /\ brightness <= FadeTarget
    /\ displayTimer > 0 =>
         map(displayTimer - 1, 0, DISPLAY_TIMEOUT, 1, FadeTarget) <= brightness

\* a \div n for an unsigned long a and 0 < n < Limb \div 2, by long division on the limbs
Div32(a, n) == (a[1] \div n) * Limb + (((a[1] % n) * Limb + a[2]) \div n)

\* C16: the mode chosen in a tick is a function of the tick's timestamp t only:
\* (t / MODE_CYCLE_TIME) mod 3, which is 0 on [0,20000), 1 on [20000,40000) and 2 on
\* [40000,60000), whatever the previous mode was.
C16_ModeIsTimestampDivCycleMod3 ==
  pc = "mode" =>
    /\ currentMode = Div32(now, MODE_CYCLE_TIME) % 3
    /\ (now[1] = 0 /\ now[2] < 60000) =>
         currentMode = (IF now[2] < 20000 THEN 0 ELSE IF now[2] < 40000 THEN 1 ELSE 2)

\* mode 1 chosen in the last limb before the counter wraps
C16_Witness ==
  /\ pc = "mode" /\ now = <<Limb - 1, 40000>>
  /\ currentMode = 1

\* C17: every render done during a tick, the immediate redraws of /timeformat and
\* /temperature included, is gated on the displayOn value handleBrightnessAndMotion
\* computes in that same tick: a tick in which anything was drawn ends with displayOn.
C17_EveryRenderGatedOnSameTick ==
  [][IsTick => ((rendered'.web \/ rendered'.loop) => displayOn')]_vars

\* C17 as the code has it: the main loop draws exactly when the displayOn value
\* computed in the same tick is true; a web handler's immediate redraw runs before
\* handleBrightnessAndMotion and is gated on displayOn as it stands at the request.
C17_LoopGatedOnSameTickWebOnStale ==
  [][/\ IsTick => (rendered'.loop <=> displayOn')
     /\ ~IsTick => (rendered'.web => displayOn)]_vars

\* a handler redrew at the start of a tick whose power step then switched off
C17_Witness ==
  /\ EndOfTick /\ rendered.web
  /\ ~displayOn /\ ~rendered.loop

\* C18: after setup the framebuffer is rewritten and refreshAll is called only while
\* displayOn is true; a tick whose power step leaves displayOn false draws nothing
\* and the framebuffer keeps its contents.
C18_DrawsOnlyWhileOn ==
  [][/\ (scr' # scr \/ (IsTick /\ rendered'.loop) \/ (~IsTick /\ rendered'.web))
        => displayOn'
     /\ (IsTick /\ ~displayOn') => (~rendered'.loop /\ scr' = scr)]_vars

\* a tick ended off with the framebuffer still showing an earlier time
C18_Witness ==
  /\ EndOfTick /\ ~displayOn /\ ~rendered.loop
  /\ scr.mode # MessageScreen
  /\ scr.hh # hours24

\* C19: an intensity command reaches the driver chain only while displayOn is true:
\* no tick and no web command changes the intensity held by the chain in a step
\* that leaves the display logically off.
C19_IntensityOnlyWhileOn ==
  [][hw'.intensity # hw.intensity => displayOn']_vars

\* C20: displayOn, brightness, displayTimer, the manual-override flag and its expiry
\* are written only by handleBrightnessAndMotion: no step other than a tick changes them.
C20_OnlyTicksWritePowerFields ==
  [][~IsTick => power' = power]_vars

\* C20 as the code has it: outside a tick displayTimer is never written; displayOn,
\* the override flag and its expiry change only together, as /display writes them
\* (toggle, flag set, expiry = millis() + DISPLAY_MANUAL_OVERRIDE_DURATION);
\* brightness changes only to the manual value /brightness stores or as part of
\* /display turning the display on.
C20_HandlersWriteAllButTimer ==
  [][~IsTick =>
       /\ displayTimer' = displayTimer
       /\ <<displayOn, displayManualOverride, displayManualOverrideTimeout>>'
            # <<displayOn, displayManualOverride, displayManualOverrideTimeout>>
          => /\ displayOn' = ~displayOn
             /\ displayManualOverride'
             /\ displayManualOverrideTimeout'
                  = Add32(now, M(DISPLAY_MANUAL_OVERRIDE_DURATION))
       /\ brightness' # brightness
          => \/ brightness' = manualBrightness' /\ UNCHANGED displayOn
             \/ displayOn' /\ ~displayOn]_vars

\* /display switched the display off after the timer had run out, and left the timer
C20_Witness ==
  /\ pc = "served" /\ userChoice = "off"
  /\ ~displayOn /\ displayManualOverride
  /\ displayTimer = 0

\* value of lo .. hi nearest to v
Nearest(v, lo, hi) ==
  CHOOSE c \in lo .. hi : (v < lo => c = lo) /\ (v > hi => c = hi) /\ (v \in lo .. hi => c = v)

\* the stored schedule and manual brightness lie in their domains
ConfigInDomain ==
  /\ scheduleOffStartHour \in 0 .. 23 /\ scheduleOffEndHour \in 0 .. 23
  /\ scheduleOffStartMinute \in 0 .. 59 /\ scheduleOffEndMinute \in 0 .. 59
  /\ manualBrightness \in 1 .. 15

\* C21: after any /schedule or /brightness command with arbitrary integer
\* arguments the schedule hours are in 0..23, the schedule minutes in 0..59 and
\* manualBrightness in 1..15; every argument present is stored as the nearest value
\* of its domain (clamped), never rejected.
C21_ArgumentsClampedNeverRejected ==
  [][/\ ConfigInDomain'
     /\ \A e \in EnabledArgs, sh \in IntArgs, sm \in IntArgs, eh \in IntArgs,
           em \in IntArgs :
          scheduleRequest(e, sh, sm, eh, em) =>
            /\ sh # <<>> => scheduleOffStartHour' = Nearest(sh[1], 0, 23)
            /\ sm # <<>> => scheduleOffStartMinute' = Nearest(sm[1], 0, 59)
            /\ eh # <<>> => scheduleOffEndHour' = Nearest(eh[1], 0, 23)
            /\ em # <<>> => scheduleOffEndMinute' = Nearest(em[1], 0, 59)
     /\ \A v \in IntArgs :
          (brightnessRequest(FALSE, v) /\ v # <<>>) =>
            manualBrightness' = Nearest(v[1], 1, 15)]_vars

\* a /brightness request with a value above 15 was served and stored 15
C21_Witness ==
  /\ pc = "served" /\ manualBrightness = 15
  /\ brightness = 15 /\ hw.intensity = 15
  /\ ConfigInDomain

\* byte whose bit k is f[k]
FromBits(f) ==
  f[0] + 2 * f[1] + 4 * f[2] + 8 * f[3] + 16 * f[4] + 32 * f[5] + 64 * f[6] + 128 * f[7]

\* number of lit bits in the display bytes of a framebuffer
LitInFrame(s) ==
  Cardinality({nk \in DisplayBytes \X (0 .. 7) : Bit(s[nk[1]], nk[2]) = 1})

\* number of lit bits in the digit registers of the chain
LitInDigits(d) ==
  Cardinality({icb \in Modules \X (0 .. 7) \X (0 .. 7) : Bit(d[icb[1]][icb[2]], icb[3]) = 1})

\* inverse position mapping of the 90 degree path: tile row k of tile column b of
\* module i is bit b of digit 7 - k
DecodeRot90(d) ==
  [n \in DisplayBytes |-> FromBits([k \in 0 .. 7 |-> Bit(d[n \div 8][7 - k], n % 8)])]

\* inverse position mapping of the unrotated path: bit k of digit b
DecodePlain(d) ==
  [n \in DisplayBytes |-> FromBits([k \in 0 .. 7 |-> Bit(d[n \div 8][n % 8], k)])]

\* the display bytes of the framebuffer
Shown(s) == [n \in DisplayBytes |-> s[n]]

\* C22: the 90 degree transform and the unrotated path are lossless: decoding the bytes
\* shifted out with the inverse position mapping gives back every display byte of
\* the framebuffer, and as many bits are lit on the chain as in the framebuffer.
C22_RefreshIsLossless ==
  /\ (pc = "refreshed" /\ call.op = "refreshAllRot90") =>
       (DecodeRot90(digits) = Shown(scr) /\ LitInDigits(digits) = LitInFrame(scr))
  /\ (pc = "refreshed" /\ call.op = "refreshAll") =>
       (DecodePlain(digits) = Shown(scr) /\ LitInDigits(digits) = LitInFrame(scr))

\* the frame whose only lit pixel is row 2 of column 3 of module 5 was sent rotated:
\* only bit 3 of digit 5 of module 5 is set
C22_Witness ==
  /\ pc = "refreshed" /\ call.op = "refreshAllRot90"
  /\ scr = OneBitFrame(5 * 8 + 3, 2)
  /\ digits[5][5] = 8
  /\ LitInDigits(digits) = 1

\* pixel (x, y) as /api/display reported it
Reported(x, y) == pixelData[y * LINE_WIDTH + x + 1] = "1"

\* C23: /api/display reports pixel (x, y) lit exactly when bit y % 8 of the byte the
\* blitter writes for column x of band y / 8 (scr[x + LINE_WIDTH * (y / 8)]) is set,
\* which is the bit refreshAllRot90 sends to module (y / 8) * 4 + x / 8 (digit
\* 7 - y % 8, bit x % 8); every framebuffer bit is reported exactly once.
C23_MirrorMatchesBlitterAndChain ==
  pc = "reported" =>
    LET sent == refreshAllRot90(scr) IN
    /\ \A y \in 0 .. 15, x \in 0 .. (LINE_WIDTH - 1) :
         /\ Reported(x, y) <=> Bit(scr[x + LINE_WIDTH * (y \div 8)], y % 8) = 1
         /\ Reported(x, y) <=>
              Bit(sent[(y \div 8) * 4 + (x \div 8)][7 - (y % 8)], x % 8) = 1
    /\ Cardinality({n \in DOMAIN pixelData : pixelData[n] = "1"}) = LitInFrame(scr)
    /\ Len(pixelData) = 512

\* the frame whose only lit bit is bit 2 of byte 43 was reported: pixel (11, 10)
C23_Witness ==
  /\ pc = "reported"
  /\ scr = OneBitFrame(43, 2)
  /\ Reported(11, 10)
  /\ Cardinality({n \in DOMAIN pixelData : pixelData[n] = "1"}) = 1

\* v with its eight bits in reverse order
ReverseBits(v) == FromBits([k \in 0 .. 7 |-> Bit(v, 7 - k)])

\* C24: for every framebuffer content, module and digit c, the byte refreshAllRot270
\* sends is the bit reversal of the byte refreshAllRot90 sends for the same module
\* and the same digit.
C24_Rot270ReversesSameDigit ==
  (pc = "refreshed" /\ call.op = "refreshAllRot270") =>
    LET sent == refreshAllRot90(scr) IN
    \A i \in Modules, c \in 0 .. 7 : digits[i][c] = ReverseBits(sent[i][c])

\* C24 as the code has it: the byte refreshAllRot270 sends for digit c is the bit
\* reversal of the byte refreshAllRot90 sends for digit 7 - c of the same module.
C24_Rot270ReversesOppositeDigit ==
  (pc = "refreshed" /\ call.op = "refreshAllRot270") =>
    LET sent == refreshAllRot90(scr) IN
    \A i \in Modules, c \in 0 .. 7 : digits[i][c] = ReverseBits(sent[i][7 - c])

\* the frame with only bit 2 of byte 43 lit, sent by refreshAllRot270: bit 4 of
\* digit 2 of module 5
C24_Witness ==
  /\ pc = "refreshed" /\ call.op = "refreshAllRot270"
  /\ scr = OneBitFrame(43, 2)
  /\ digits[5][2] = 16

\* the character of the last printCharX call is outside the font's declared range
OutsideFont == call.ch < call.font[3] \/ call.ch > call.font[4]

\* C25: printCharX called with a character code outside the font's range
\* [first code, last code] returns width 0 and leaves every framebuffer byte unchanged.
C25_OutsideFontDrawsNothing ==
  (pc = "drawn" /\ OutsideFont) => (call.w = 0 /\ scr = call.before)

\* '/' asked of digits5x16rn, whose first code is '0', over a fully lit framebuffer
C25_Witness ==
  /\ pc = "drawn" /\ OutsideFont
  /\ call.ch = 47 /\ call.font = digits5x16rn
  /\ call.before = [m \in ScrBytes |-> 255]
  /\ scr = call.before /\ call.w = 0

\* bands (of LINE_WIDTH bytes) the last printCharX call drew into
BandsDrawn == 0 .. (((call.font[2] + 7) \div 8) - 1)

\* C26: printCharX leaves no glyph data at a column at or beyond LINE_WIDTH of the
\* band it draws into: every such position it touches is 0 after the call and the
\* bytes of the next band are as before; a message showMessage draws into band 0
\* leaves band 1 empty.
C26_NothingPastRightEdge ==
  /\ (pc = "drawn" /\ ~OutsideFont) =>
       \A j \in BandsDrawn, i \in 0 .. call.w :
         LET n == call.x + LINE_WIDTH * (j + call.y) + i IN
         (call.x + i >= LINE_WIDTH /\ n \in Touched(call.ch, call.font, call.x, call.y)) =>
           scr[n] = 0
  /\ pc = "shown" =>
       \A n \in LINE_WIDTH .. (2 * LINE_WIDTH - 1) : scr[n] = 0

\* C27: in 24-hour format the frames of displayTimeAndTemp and displayTimeAndDate do
\* not depend on seconds: the state with any other seconds value, all else equal,
\* renders the same framebuffer.
C27_SecondsNotDrawnIn24h ==
  (pc = "framed" /\ use24HourFormat) =>
    \A sec \in SecondSamples \cup {1, 10} :
      /\ call.op = "displayTimeAndTemp" =>
           scr = displayTimeAndTemp(call.before, [Globals EXCEPT !.seconds = sec]).scr
      /\ call.op = "displayTimeAndDate" =>
           scr = displayTimeAndDate(call.before, [Globals EXCEPT !.seconds = sec]).scr

\* 23:59 drawn by displayTimeAndDate in 24-hour format at second 37; in 12-hour
\* format the same state at second 0 renders another frame
C27_Witness ==
  /\ pc = "framed" /\ use24HourFormat /\ call.op = "displayTimeAndDate"
  /\ hours24 = 23 /\ minutes = 59 /\ seconds = 37
  /\ scr # call.before
  /\ displayTimeAndDate(call.before, [Globals EXCEPT !.use24HourFormat = FALSE]).scr
       # displayTimeAndDate(call.before,
                            [Globals EXCEPT !.use24HourFormat = FALSE, !.seconds = 0]).scr

\* C28: the frame of displayTimeLarge does not depend on the 12/24-hour flag: the
\* state with the other flag value renders the same framebuffer, and the hour drawn
\* is the 12-hour value (every 24-hour value with the same 12-hour value renders
\* the same frame).
C28_LargeModeAlwaysTwelveHour ==
  (pc = "framed" /\ call.op = "displayTimeLarge") =>
    /\ hours = hours12(hours24)
    /\ \A flag \in BOOLEAN :
         scr = displayTimeLarge(call.before, [Globals EXCEPT !.use24HourFormat = flag]).scr
    /\ \A h \in DayHours :
         hours12(h) = hours12(hours24) =>
           scr = displayTimeLarge(call.before,
                                  [Globals EXCEPT !.hours24 = h, !.hours = hours12(h)]).scr

\* 21:59 drawn by displayTimeLarge with the 24-hour flag set: the frame is that of 9:59
C28_Witness ==
  /\ pc = "framed" /\ call.op = "displayTimeLarge"
  /\ use24HourFormat /\ hours24 = 21 /\ hours = 9 /\ minutes = 59
  /\ scr = displayTimeLarge(call.before,
                             [Globals EXCEPT !.use24HourFormat = FALSE, !.hours24 = 9]).scr

\* milliseconds since the /display toggle that set the pending override, at the
\* tick being taken (the toggle stored millis() + DISPLAY_MANUAL_OVERRIDE_DURATION)
SinceToggle ==
  ToInt(Sub32(now, Sub32(displayManualOverrideTimeout, M(DISPLAY_MANUAL_OVERRIDE_DURATION))))

\* C29: a tick that finds a manual override pending keeps it when at most
\* DISPLAY_MANUAL_OVERRIDE_DURATION ms have passed since the toggle that set it and
\* cancels it otherwise, for every counter value at the toggle, values within
\* DISPLAY_MANUAL_OVERRIDE_DURATION of the 32-bit wrap included.
C29_OverrideLastsItsDuration ==
  [][(IsTick /\ displayManualOverride)
       => (displayManualOverride' <=> SinceToggle <= DISPLAY_MANUAL_OVERRIDE_DURATION)]_vars

\* C30: once STARTUP_GRACE_PERIOD ms have passed since startup no tick applies the
\* startup-grace rule, also after millis() has wrapped (every state explored here
\* is more than 2^32 - 2^19 ms after startup).
C30_GraceOnlyOnce ==
  [][IsTick => rule' # "grace"]_vars

C32_TimerAndBrightnessInRange ==
  /\ displayTimer \in 0 .. DISPLAY_TIMEOUT
  /\ brightness \in 0 .. 15

\* /brightness?value=60 was clamped to 15 and a later tick faded from it with the
\* idle timer counting down
C32_Witness ==
  /\ EndOfTick /\ rule = "fade"
  /\ brightnessManualOverride /\ manualBrightness = 15
  /\ displayTimer = DISPLAY_TIMEOUT - 1 /\ brightness = 14

\* C33: for every valid time, date, temperature (-40..85 C, either unit), humidity
\* (0..100) and sensor state, none of the three render modes writes a framebuffer
\* index outside scr (0 .. NUM_MAX * 8 + 7).
C33_RendersStayInsideScr ==
  pc = "client" =>
    /\ ~displayTimeAndTemp(scr, Globals).wild
    /\ ~displayTimeLarge(scr, Globals).wild
    /\ ~displayTimeAndDate(scr, Globals).wild

\* framebuffer bytes 0 .. LINE_WIDTH - 1
TopBand(s) == [m \in 0 .. (LINE_WIDTH - 1) |-> s[m]]

\* C34: for the same time fields, colon state and 12/24-hour flag the top band
\* (bytes 0..31) drawn by displayTimeAndDate equals the one drawn by
\* displayTimeAndTemp, whatever the sensor values, the unit and the date.
C34_DateScreenSharesTimeLine ==
  pc = "framed" =>
    \A sensor \in BOOLEAN, t \in {-40, 21}, d \in {1, 31} :
      LET other == [Globals EXCEPT !.sensorAvailable = sensor,
                                   !.useFahrenheit = ~useFahrenheit,
                                   !.temperature = t, !.humidity = 100 - humidity,
                                   !.day = d, !.month = 13 - month] IN
      /\ call.op = "displayTimeAndDate" =>
           TopBand(scr) = TopBand(displayTimeAndTemp(call.before, other).scr)
      /\ call.op = "displayTimeAndTemp" =>
           TopBand(scr) = TopBand(displayTimeAndDate(call.before, other).scr)

\* 9:59:37 with the colon lit, drawn by displayTimeAndDate in 12-hour format: a
\* top band that is not empty and differs from the one of 24-hour format
C34_Witness ==
  /\ pc = "framed" /\ call.op = "displayTimeAndDate"
  /\ ~use24HourFormat /\ hours = 9 /\ minutes = 59 /\ seconds = 37 /\ showDots
  /\ TopBand(scr) # [m \in 0 .. (LINE_WIDTH - 1) |-> 0]
  /\ TopBand(scr)
       # TopBand(displayTimeAndTemp(call.before,
                                    [Globals EXCEPT !.use24HourFormat = TRUE]).scr)

\* what "at least 5% of the previous reading" asks of the difference d for previous
\* reading p: 100 * d >= 5 * p, and d >= 51 when p is 0
FivePercentApart(d, p) == IF p = 0 THEN d >= 51 ELSE 100 * d >= 5 * p

\* C35: a tick sets lightLevelChanged only when the new reading differs from the
\* previous one by at least 5% of the previous reading (at least 51 when that is
\* 0); a tick whose reading equals the previous reading never sets the flag.
C35_FlagOnlyOnFivePercentChange ==
  [][(IsTick /\ ~lightLevelChanged /\ lightLevelChanged')
       => /\ FivePercentApart(abs(lightLevel' - previousLightLevel), previousLightLevel)
          /\ lightLevel' # previousLightLevel]_vars

\* the step is the /timezone handler up to its call of syncNTP() or its answer
IsTimezoneCommand == pc = "client" /\ pc' \in {"sync", "served"} /\ call'.op = "timezone"

\* C36: a /timezone command whose index is outside 0..numTimezones-1 (or that
\* carries none) leaves currentTimezone unchanged and starts no re-sync; a command
\* with an index inside the range sets currentTimezone to exactly that index; so
\* currentTimezone is a valid index of the timezone table in every reachable state.
C36_TimezoneCommandValidated ==
  /\ [](currentTimezone \in 0 .. (numTimezones - 1))
  /\ [][IsTimezoneCommand =>
          IF call'.tz # <<>> /\ toInt(call'.tz[1]) \in 0 .. (numTimezones - 1)
          THEN currentTimezone' = toInt(call'.tz[1])
          ELSE /\ currentTimezone' = currentTimezone
               /\ syncs' = syncs
               /\ pc' = "served"]_vars

\* the last entry of the table was selected and synced, then tz=89 was refused
C36_Witness ==
  /\ currentTimezone = numTimezones - 1
  /\ syncs = 1 /\ syncResult # <<>>
  /\ call = [op |-> "timezone", tz |-> << <<"8", "9">> >>]
  /\ toInt(call.tz[1]) = numTimezones
  /\ pc = "served"

\* no syncNTP() call is between its first poll and its return
SyncSettled == pc \notin {"sync", "exit"} /\ syncResult # <<>>

\* C39: syncNTP polls the system time at most 20 times, returns false only when
\* none of its polls obtained a valid time, and returns true whenever one did.
C39_SyncWithinTwentyPolls ==
  /\ polls <= NTP_MAX_ATTEMPTS
  /\ SyncSettled => (syncResult[1] <=> timeSet)

\* the step is a handler of /api/all or /api/display
IsStatusRequest == pc = "client" /\ pc' = "reported" /\ call'.op \in {"apiAll", "apiDisplay"}

\* C37: handling /api/all or /api/display leaves displayOn, brightness,
\* displayTimer, the manual-override flag and expiry, the schedule fields and
\* every framebuffer byte unchanged.
C37_StatusRequestsReadOnly ==
  [][IsStatusRequest =>
       /\ UNCHANGED <<displayOn, brightness, displayTimer, displayManualOverride,
                      displayManualOverrideTimeout, schedule>>
       /\ \A m \in ScrBytes : scr'[m] = scr[m]]_vars

\* /api/all answered while the display is off under a manual override with a
\* pattern in the framebuffer: the light-changed flag it reported is cleared
C37_Witness ==
  /\ pc = "reported" /\ call.op = "apiAll"
  /\ call.light_changed /\ ~lightLevelChanged
  /\ ~displayOn /\ displayManualOverride /\ displayTimer = 0
  /\ scr = PatternFrame(0)

\* the character code lies inside the range the font declares
InFontRange(ch, font) == ch >= pgm_read_byte(font, 2) /\ ch <= pgm_read_byte(font, 3)

\* C38: for every shipped font and every character code inside the font's
\* declared range, charWidth returns the width printCharX returns as consumed for
\* that code, and the value lies in 0..8.
C38_CharWidthIsGlyphWidth ==
  (call.op = "charWidth" /\ InFontRange(call.ch, call.font))
    => /\ call.w = printCharX(scr, call.ch, call.font, 0, 0).w
       /\ call.w \in 0 .. 8

=============================================================================
